---- MODULE Spec2Model ----
(***************************************************************************)
(* A model of the TableauAPI command-line client: the authentication       *)
(* config resolver and the authenticator (core/auth.py), the REST client   *)
(* wrapper and its retry loop (core/client.py), the metadata processor's   *)
(* filter and JSON serializer (core/metadata.py), the storage backends and *)
(* their manager (core/storage.py), the collect command                    *)
(* (cli/commands/metadata.py), the CSV export (cli/commands/export.py),    *)
(* the GraphQL metadata client and the error handlers of the CLI commands. *)
(*                                                                         *)
(* Each component has its own specification over the shared variables:     *)
(* SpecAuth, SpecSession, SpecClient, SpecFilter, SpecSerial, SpecStore,   *)
(* SpecLocal, SpecS3, SpecBackends, SpecManager, SpecRuns, SpecCollect,    *)
(* SpecCli, SpecCore, SpecSummary, SpecCsv, SpecSearch, SpecWith and       *)
(* SpecGraphql.  A component's variables stay at their initial value in    *)
(* the other specifications.                                               *)
(***************************************************************************)
EXTENDS Integers, Sequences, FiniteSets, TLC

VARIABLES
    env,          \* os.environ: variable name -> value (None when unset)
    authLog,      \* results of the create_auth_config_from_env calls so far
    server,       \* TableauClient.server: None until connection() signs in
    conn,         \* whether a `with client.connection()` block is open
    pc,           \* position of the current client call
    op,           \* the list operation being called
    attempt,      \* loop variable of _retry_operation
    log,          \* outcome of every invocation of the wrapped operation
    sleeps,       \* argument of every time.sleep() of the current call
    retryOut,     \* what _retry_operation returned or raised
    callOut,      \* what the list operation returned or raised to its caller
    metas,        \* the ServerMetadata instances alive, by object identity
    filterCalls,  \* the filter_metadata calls made so far
    serMeta,      \* the ServerMetadata being serialized
    serJson,      \* the JSON text metadata_to_json returned, NoValue before
    serLoaded,    \* the ServerMetadata rebuilt from it, NoValue before
    localFiles,   \* LocalStorage: what is at each path under base_path
    s3Objects,    \* S3Storage: the object at each key under the prefix
    storeOut,     \* the last storage call and what it returned or raised
    s3_storage,   \* StorageManager.s3_storage: TRUE for an S3Storage, FALSE for None
    clock,        \* datetime.now(): index of the current instant
    runs,         \* number of collect runs that saved to S3 and succeeded
    cpc,          \* collect: where the command stands
    include,      \* collect: the --include-views/-connections/-lineage flags
    workbooks_data,\* collect: what get_workbooks returned
    datasources_data,\* collect: what get_datasources returned
    processed_workbooks,\* collect: the WorkbookMetadata built so far
    processed_datasources,\* collect: the DatasourceMetadata built so far
    warnings,     \* collect: the warnings printed so far
    calls,        \* every REST and GraphQL call made, with the session it used
    sessions,     \* the signed-in sessions alive on the server
    command,      \* the CLI command of this invocation, "" before it starts
    cliError,     \* the error that ended the command, "" when there is none
    printed,      \* the error messages the command printed
    exitStatus,   \* the exit status of the process, Running until it ends
    coreSite,     \* the core operation called and the library call it has reached
    coreCause,    \* the exception the library call raised, NoValue when none
    coreOut,      \* what the core operation returned or raised, NoValue before
    is_signed_in, \* TableauAuthenticator.server.is_signed_in()
    authCalls,    \* the authenticate() and sign_out() calls made on the authenticator
    summaryOut,   \* what get_metadata_summary returned or raised, NoValue before
    csvOut,       \* the CSV writer that ran and the files it wrote, NoValue before
    searchOut,    \* the search_content call made, the list calls it issued and its outcome
    withBlocks,   \* the with client.connection() blocks that were left, and how
    gqlSession,   \* TableauMetadataClient.session: NoValue for None
    gqlLog        \* the query() calls made: sign-ins, requests sent, outcome

authVars == <<env, authLog>>
clientVars == <<server, conn, pc, op, attempt, log, sleeps, retryOut, callOut>>
filterVars == <<metas, filterCalls>>
serialVars == <<serMeta, serJson, serLoaded>>
storeVars == <<localFiles, s3Objects, storeOut, s3_storage>>
runVars == <<clock, runs>>
collectVars == <<cpc, include, workbooks_data, datasources_data, processed_workbooks, processed_datasources, warnings, calls, sessions>>
cliVars == <<command, cliError, printed, exitStatus>>
coreVars == <<coreSite, coreCause, coreOut>>
sessionVars == <<is_signed_in, authCalls>>
summaryVars == <<summaryOut>>
csvVars == <<csvOut>>
searchVars == <<searchOut>>
withVars == <<withBlocks>>
graphqlVars == <<gqlSession, gqlLog>>
vars == <<authVars, clientVars, filterVars, serialVars, storeVars, runVars, collectVars, cliVars, coreVars, sessionVars, summaryVars, csvVars, searchVars, withVars, graphqlVars>>

\* What an action of one component leaves alone.
nonAuthVars == <<clientVars, filterVars, serialVars, storeVars, runVars, collectVars, cliVars, coreVars, sessionVars, summaryVars, csvVars, searchVars, withVars, graphqlVars>>
nonClientVars == <<authVars, filterVars, serialVars, storeVars, runVars, collectVars, cliVars, coreVars, sessionVars, summaryVars, csvVars, searchVars, withVars, graphqlVars>>
nonFilterVars == <<authVars, clientVars, serialVars, storeVars, runVars, collectVars, cliVars, coreVars, sessionVars, summaryVars, csvVars, searchVars, withVars, graphqlVars>>
nonSerialVars == <<authVars, clientVars, filterVars, storeVars, runVars, collectVars, cliVars, coreVars, sessionVars, summaryVars, csvVars, searchVars, withVars, graphqlVars>>
nonStoreVars == <<authVars, clientVars, filterVars, serialVars, runVars, collectVars, cliVars, coreVars, sessionVars, summaryVars, csvVars, searchVars, withVars, graphqlVars>>
nonRunVars == <<authVars, clientVars, filterVars, serialVars, collectVars, cliVars, coreVars, sessionVars, summaryVars, csvVars, searchVars, withVars, graphqlVars>>
nonCollectVars == <<authVars, clientVars, filterVars, serialVars, storeVars, runVars, cliVars, coreVars, sessionVars, summaryVars, csvVars, searchVars, withVars, graphqlVars>>
nonCliVars == <<authVars, clientVars, filterVars, serialVars, storeVars, runVars, collectVars, coreVars, sessionVars, summaryVars, csvVars, searchVars, withVars, graphqlVars>>
nonCoreVars == <<authVars, clientVars, filterVars, serialVars, storeVars, runVars, collectVars, cliVars, sessionVars, summaryVars, csvVars, searchVars, withVars, graphqlVars>>
nonSessionVars == <<authVars, clientVars, filterVars, serialVars, storeVars, runVars, collectVars, cliVars, coreVars, summaryVars, csvVars, searchVars, withVars, graphqlVars>>
nonSummaryVars == <<authVars, clientVars, filterVars, serialVars, storeVars, runVars, collectVars, cliVars, coreVars, sessionVars, csvVars, searchVars, withVars, graphqlVars>>
nonCsvVars == <<authVars, clientVars, filterVars, serialVars, storeVars, runVars, collectVars, cliVars, coreVars, sessionVars, summaryVars, searchVars, withVars, graphqlVars>>
nonSearchVars == <<authVars, clientVars, filterVars, serialVars, storeVars, runVars, collectVars, cliVars, coreVars, sessionVars, summaryVars, csvVars, withVars, graphqlVars>>
nonWithVars == <<authVars, filterVars, serialVars, storeVars, runVars, collectVars, cliVars, coreVars, summaryVars, csvVars, searchVars, graphqlVars>>
nonGraphqlVars == <<authVars, clientVars, filterVars, serialVars, storeVars, runVars, collectVars, cliVars, coreVars, sessionVars, summaryVars, csvVars, searchVars, withVars>>

\* Python's None.  No input string of the model equals it.
None == "None"

\* Python truthiness of Optional[str]: None and "" are falsy.
Truthy(v) == v # None /\ v # ""

\* A raised exception: its class and its message (a sequence of parts, so
\* that f"prefix: {str(e)}" is the concatenation prefix \o str(e)).
Exc(kind, msg) == [kind |-> kind, msg |-> msg]

\* utils/exceptions.py: every class of the taxonomy derives from TableauAPIError.
TaxonomyKinds ==
    {"TableauAPIError", "AuthenticationError", "ConfigurationError",
     "ConnectionError", "MetadataError", "StorageError"}

(***************************************************************************)
(* core/auth.py: the authentication config resolver                        *)
(***************************************************************************)

EnvVars ==
    {"TABLEAU_SERVER_URL", "TABLEAU_SITE_ID", "TABLEAU_TOKEN_NAME",
     "TABLEAU_TOKEN_VALUE", "TABLEAU_USERNAME", "TABLEAU_PASSWORD",
     "TABLEAU_JWT_TOKEN"}

\* What a variable can hold: unset, set to the empty string, set to a value.
EnvValues == {None, "", "val"}

\* How many times the resolver is called on one environment.
MaxAuthCalls == 2

\* os.getenv(name) and os.getenv(name, default)
getenv(e, name) == e[name]
getenv_default(e, name, default) == IF e[name] = None THEN default ELSE e[name]

\* AuthMethod
PERSONAL_ACCESS_TOKEN == "pat"
USERNAME_PASSWORD == "credentials"
JWT == "jwt"

\* AuthConfig(...): the dataclass with its defaults
AuthConfig(server_url, site_id, auth_method, token_name, token_value, username, password, jwt_token) ==
    [server_url |-> server_url, site_id |-> site_id,
     auth_method |-> auth_method,
     token_name |-> token_name, token_value |-> token_value,
     username |-> username, password |-> password, jwt_token |-> jwt_token]

Returned(v) == [status |-> "return", value |-> v]
Raised(e) == [status |-> "raise", exc |-> e]

\* Mutant: username/password is looked at before the token pair.
create_auth_config_from_env_UserFirst(e) ==
    LET server_url == getenv(e, "TABLEAU_SERVER_URL")
        site_id == getenv_default(e, "TABLEAU_SITE_ID", "")
        token_name == getenv(e, "TABLEAU_TOKEN_NAME")
        token_value == getenv(e, "TABLEAU_TOKEN_VALUE")
        username == getenv(e, "TABLEAU_USERNAME")
        password == getenv(e, "TABLEAU_PASSWORD")
        jwt_token == getenv(e, "TABLEAU_JWT_TOKEN")
    IN  IF ~Truthy(server_url)
        THEN Raised(Exc("ConfigurationError",
                 <<"TABLEAU_SERVER_URL environment variable required">>))
        ELSE IF Truthy(username) /\ Truthy(password)
        THEN Returned(AuthConfig(server_url, site_id, USERNAME_PASSWORD,
                                 None, None, username, password, None))
        ELSE IF Truthy(token_name) /\ Truthy(token_value)
        THEN Returned(AuthConfig(server_url, site_id, PERSONAL_ACCESS_TOKEN,
                                 token_name, token_value, None, None, None))
        ELSE IF Truthy(jwt_token)
        THEN Returned(AuthConfig(server_url, site_id, JWT,
                                 None, None, None, None, jwt_token))
        ELSE Raised(Exc("ConfigurationError",
                 <<"No valid authentication credentials found in environment variables">>))

\* Mutant: the server URL is not required.
create_auth_config_from_env_NoUrlCheck(e) ==
    LET server_url == getenv(e, "TABLEAU_SERVER_URL")
        site_id == getenv_default(e, "TABLEAU_SITE_ID", "")
        token_name == getenv(e, "TABLEAU_TOKEN_NAME")
        token_value == getenv(e, "TABLEAU_TOKEN_VALUE")
        username == getenv(e, "TABLEAU_USERNAME")
        password == getenv(e, "TABLEAU_PASSWORD")
        jwt_token == getenv(e, "TABLEAU_JWT_TOKEN")
    IN  IF Truthy(token_name) /\ Truthy(token_value)
        THEN Returned(AuthConfig(server_url, site_id, PERSONAL_ACCESS_TOKEN,
                                 token_name, token_value, None, None, None))
        ELSE IF Truthy(username) /\ Truthy(password)
        THEN Returned(AuthConfig(server_url, site_id, USERNAME_PASSWORD,
                                 None, None, username, password, None))
        ELSE IF Truthy(jwt_token)
        THEN Returned(AuthConfig(server_url, site_id, JWT,
                                 None, None, None, None, jwt_token))
        ELSE Raised(Exc("ConfigurationError",
                 <<"No valid authentication credentials found in environment variables">>))

\* create_auth_config_from_env(), as a function of the environment it reads
create_auth_config_from_env(e) ==
    LET server_url == getenv(e, "TABLEAU_SERVER_URL")
        site_id == getenv_default(e, "TABLEAU_SITE_ID", "")
        token_name == getenv(e, "TABLEAU_TOKEN_NAME")
        token_value == getenv(e, "TABLEAU_TOKEN_VALUE")
        username == getenv(e, "TABLEAU_USERNAME")
        password == getenv(e, "TABLEAU_PASSWORD")
        jwt_token == getenv(e, "TABLEAU_JWT_TOKEN")
    IN  IF ~Truthy(server_url)
        THEN Raised(Exc("ConfigurationError",
                 <<"TABLEAU_SERVER_URL environment variable required">>))
        ELSE IF Truthy(token_name) /\ Truthy(token_value)
        THEN Returned(AuthConfig(server_url, site_id, PERSONAL_ACCESS_TOKEN,
                                 token_name, token_value, None, None, None))
        ELSE IF Truthy(username) /\ Truthy(password)
        THEN Returned(AuthConfig(server_url, site_id, USERNAME_PASSWORD,
                                 None, None, username, password, None))
        ELSE IF Truthy(jwt_token)
        THEN Returned(AuthConfig(server_url, site_id, JWT,
                                 None, None, None, None, jwt_token))
        ELSE Raised(Exc("ConfigurationError",
                 <<"No valid authentication credentials found in environment variables">>))

AuthInit ==
    /\ env \in [EnvVars -> EnvValues]
    /\ authLog = <<>>

AuthIdle ==
    /\ env = [v \in EnvVars |-> None]
    /\ authLog = <<>>

\* A CLI command calls create_auth_config_from_env() (cli/commands/*.py).
CreateAuthConfigFromEnv ==
    /\ Len(authLog) < MaxAuthCalls
    /\ authLog' = Append(authLog, create_auth_config_from_env(env))
    /\ UNCHANGED env
    /\ UNCHANGED nonAuthVars

(***************************************************************************)
(* core/client.py: the REST client wrapper and its retry loop              *)
(***************************************************************************)

\* TableauClient.__init__
retry_count == 3
retry_delay == 1

\* The list operations and the text each puts before str(e).
ListOps ==
    {"get_workbooks", "get_datasources", "get_projects", "get_flows",
     "get_users", "get_groups"}

FailurePrefix(o) ==
    CASE o = "get_workbooks" -> "Failed to get workbooks: "
      [] o = "get_datasources" -> "Failed to get data sources: "
      [] o = "get_projects" -> "Failed to get projects: "
      [] o = "get_flows" -> "Failed to get flows: "
      [] o = "get_users" -> "Failed to get users: "
      [] o = "get_groups" -> "Failed to get groups: "

\* What one invocation of list(TSC.Pager(endpoint)) can do: return the
\* items, or raise an SDK/library exception (a 4xx response, a network
\* error).
SdkResults == {"items_a", "items_b"}
SdkErrors ==
    {Exc("ServerResponseError", <<"403 Forbidden">>),
     Exc("Timeout", <<"connection timed out">>)}

Ok(v) == [ok |-> TRUE, value |-> v]
Fail(e) == [ok |-> FALSE, exc |-> e]

NoOutcome == [status |-> "none"]

\* Mutant: once the attempts are used up a generic error is raised in
\* place of the operation's own exception.
after_failure_Generic(a, e) ==
    IF a = retry_count - 1
    THEN [do |-> "raise", exc |-> Exc("RuntimeError", <<"retries exhausted">>)]
    ELSE [do |-> "sleep", delay |-> retry_delay * (2 ^ a)]

\* Mutant: the backoff starts one doubling late and no attempt is the last.
after_failure_LateBackoff(a, e) ==
    IF a = retry_count
    THEN [do |-> "raise", exc |-> e]
    ELSE [do |-> "sleep", delay |-> retry_delay * (2 ^ (a + 1))]

\* _retry_operation, the except branch: on the last attempt the exception
\* in flight is re-raised (bare `raise`), otherwise the loop sleeps.
after_failure(a, e) ==
    IF a = retry_count - 1
    THEN [do |-> "raise", exc |-> e]
    ELSE [do |-> "sleep", delay |-> retry_delay * (2 ^ a)]

\* Mutant: the list operation lets the retry loop's exception through.
list_op_result_Raw(o, r) == r

\* get_workbooks & co., the try/except around _retry_operation: a result is
\* returned as is, any exception e becomes TableauAPIError(prefix + str(e)).
list_op_result(o, r) ==
    IF r.status = "return"
    THEN r
    ELSE Raised(Exc("TableauAPIError", <<FailurePrefix(o)>> \o r.exc.msg))

ClientInit ==
    /\ server = None
    /\ conn = "closed"
    /\ pc = "idle"
    /\ op = None
    /\ attempt = 0
    /\ log = <<>>
    /\ sleeps = <<>>
    /\ retryOut = NoOutcome
    /\ callOut = NoOutcome

\* connection().__enter__: authenticate() signs in and self.server is set;
\* when the sign-in fails, ConnectionError is raised and the block is not
\* entered.
ConnectionEnter ==
    /\ conn = "closed"
    /\ pc \in {"idle", "done"}
    /\ \/ /\ server' = "server"
          /\ conn' = "open"
          /\ callOut' = NoOutcome
       \/ /\ callOut' = Raised(Exc("ConnectionError",
                 <<"Failed to connect to Tableau Server: ",
                   "Authentication failed: ", "sign-in refused">>))
          /\ UNCHANGED <<server, conn>>
    /\ pc' = "idle"
    /\ UNCHANGED <<op, attempt, log, sleeps, retryOut>>
    /\ UNCHANGED nonClientVars

\* connection().__exit__: the finally clause signs out; self.server keeps
\* its value.
ConnectionExit ==
    /\ conn = "open"
    /\ pc \in {"idle", "done"}
    /\ conn' = "closed"
    /\ UNCHANGED <<server, pc, op, attempt, log, sleeps, retryOut, callOut>>
    /\ UNCHANGED nonClientVars

\* A list operation is called: without a server it raises ConnectionError
\* at once, otherwise it enters _retry_operation.
CallListOp(o) ==
    /\ pc \in {"idle", "done"}
    /\ op' = o
    /\ attempt' = 0
    /\ log' = <<>>
    /\ sleeps' = <<>>
    /\ retryOut' = NoOutcome
    /\ IF server = None
       THEN /\ callOut' = Raised(Exc("ConnectionError",
                                     <<"Not connected to server">>))
            /\ pc' = "done"
       ELSE /\ callOut' = NoOutcome
            /\ pc' = "try"
    /\ UNCHANGED <<server, conn>>
    /\ UNCHANGED nonClientVars

\* _retry_operation, one pass of the loop body: the operation returns ...
AttemptReturns(v) ==
    /\ pc = "try"
    /\ log' = Append(log, Ok(v))
    /\ retryOut' = Returned(v)
    /\ pc' = "wrap"
    /\ UNCHANGED <<server, conn, op, attempt, sleeps, callOut>>
    /\ UNCHANGED nonClientVars

\* ... or raises: the exception is re-raised on the last attempt, and
\* otherwise the loop sleeps retry_delay * 2**attempt and goes on.
AttemptRaises(e) ==
    /\ pc = "try"
    /\ log' = Append(log, Fail(e))
    /\ LET next == after_failure(attempt, e)
       IN  IF next.do = "raise"
           THEN /\ retryOut' = Raised(next.exc)
                /\ pc' = "wrap"
                /\ UNCHANGED <<attempt, sleeps>>
           ELSE /\ sleeps' = Append(sleeps, next.delay)
                /\ attempt' = attempt + 1
                /\ IF attempt + 1 < retry_count
                   THEN /\ pc' = "try"
                        /\ UNCHANGED retryOut
                   ELSE \* range() is used up: the function returns None
                        /\ pc' = "wrap"
                        /\ retryOut' = Returned(None)
    /\ UNCHANGED <<server, conn, op, callOut>>
    /\ UNCHANGED nonClientVars

\* The list operation hands the outcome to its caller.
ListOpCompletes ==
    /\ pc = "wrap"
    /\ callOut' = list_op_result(op, retryOut)
    /\ pc' = "done"
    /\ UNCHANGED <<server, conn, op, attempt, log, sleeps, retryOut>>
    /\ UNCHANGED nonClientVars

(***************************************************************************)
(* core/metadata.py: the normalized schema and filter_metadata             *)
(***************************************************************************)

\* The fields of WorkbookMetadata, DatasourceMetadata and FlowMetadata that
\* filter_metadata reads, and the id.  tags is a list; updated_at is NoTime
\* (None) or At(t), an instant t (all instants are on one timeline, as the
\* SDK returns them).
NoTime == <<>>
At(t) == <<t>>

Content(id, project_name, owner_name, tags, updated_at) ==
    [id |-> id, project_name |-> project_name, owner_name |-> owner_name,
     tags |-> tags, updated_at |-> updated_at]

\* ProjectMetadata: it has a name and timestamps, but no owner and no tags.
Project(id, name, updated_at) ==
    [id |-> id, name |-> name, updated_at |-> updated_at]

ServerMetadata(server_url, version, rest_api_version, site_id, site_name, timestamp, workbooks, datasources, projects, flows) ==
    [server_url |-> server_url, version |-> version,
     rest_api_version |-> rest_api_version, site_id |-> site_id,
     site_name |-> site_name, timestamp |-> timestamp,
     workbooks |-> workbooks, datasources |-> datasources,
     projects |-> projects, flows |-> flows]

\* The entities a collection run can have produced.
WorkbookPool ==
    {Content("w1", "P1", "alice", <<"t1">>, At(1)),
     Content("w2", "P2", "bob", <<"t2">>, At(2)),
     Content("w3", "P1", "bob", <<>>, NoTime),
     Content("w4", "P2", "alice", <<"t2", "t1">>, At(2))}
DatasourcePool ==
    {Content("d1", "P1", "alice", <<"t2">>, At(2)),
     Content("d2", "P2", "bob", <<"t1">>, NoTime)}
ProjectPool ==
    {Project("p1", "P1", At(1)),
     Project("p2", "P2", NoTime)}
FlowPool ==
    {Content("f1", "P2", "alice", <<"t1">>, At(1)),
     Content("f2", "P1", "bob", <<>>, At(2))}

\* The largest number of entities in one ServerMetadata, and the longest
\* chain of filter_metadata calls.
MaxEntities == 2
MaxFilterChain == 2

ListsOver(pool) == UNION {[1..n -> pool] : n \in 0..MaxEntities}

CollectedMetadata ==
    {ServerMetadata("https://tableau.example", "2023.1", "3.19", "site", "site", 5, w, d, p, f) :
        <<w, d, p, f>> \in
            {t \in ListsOver(WorkbookPool) \X ListsOver(DatasourcePool)
                     \X ListsOver(ProjectPool) \X ListsOver(FlowPool) :
                Len(t[1]) + Len(t[2]) + Len(t[3]) + Len(t[4]) <= MaxEntities}}

\* The filter dict: a function from the keys present to their values.
FilterKeys == {"project_names", "owner_names", "tags", "updated_since"}
FilterValues(k) ==
    CASE k = "project_names" -> {{"P1"}, {"P2"}}
      [] k = "owner_names" -> {{"alice"}}
      [] k = "tags" -> {{"t1"}, {"t1", "t2"}}
      [] k = "updated_since" -> {1, 2}
\* Every dict over a subset of the keys: each key is absent or has one of
\* its values.
OptValue(k) == {<<>>} \cup {<<v>> : v \in FilterValues(k)}
DictOf(pn, on, tg, us) ==
    LET present == [project_names |-> pn, owner_names |-> on, tags |-> tg, updated_since |-> us]
    IN  [k \in {key \in FilterKeys : present[key] # <<>>} |-> present[k][1]]
FilterDicts ==
    {DictOf(pn, on, tg, us) :
        pn \in OptValue("project_names"), on \in OptValue("owner_names"),
        tg \in OptValue("tags"), us \in OptValue("updated_since")}

Has(filters, k) == k \in DOMAIN filters
Elems(list) == {list[i] : i \in 1..Len(list)}

\* The four predicates, as the list comprehensions state them.
InProject(x, filters) == x.project_name \in filters["project_names"]
ProjectNamed(p, filters) == p.name \in filters["project_names"]
OwnedBy(x, filters) == x.owner_name \in filters["owner_names"]
Tagged(x, filters) == \E tag \in filters["tags"] : tag \in Elems(x.tags)
UpdatedSince(x, filters) ==
    x.updated_at # NoTime /\ x.updated_at[1] >= filters["updated_since"]

\* Mutant: the blocks are an if/elif chain, only the first key present counts.
filter_content_Elif(list, filters) ==
    LET Keep(x) ==
            IF Has(filters, "project_names") THEN InProject(x, filters)
            ELSE IF Has(filters, "owner_names") THEN OwnedBy(x, filters)
            ELSE IF Has(filters, "tags") THEN Tagged(x, filters)
            ELSE IF Has(filters, "updated_since") THEN UpdatedSince(x, filters)
            ELSE TRUE
    IN  SelectSeq(list, Keep)

\* filter_metadata on one of the lists workbooks, datasources, flows: the
\* four `if key in filters` blocks in turn, each a list comprehension over
\* the list the previous block left.
filter_content(list, filters) ==
    LET by_project ==
            IF Has(filters, "project_names")
            THEN SelectSeq(list, LAMBDA x : InProject(x, filters))
            ELSE list
        by_owner ==
            IF Has(filters, "owner_names")
            THEN SelectSeq(by_project, LAMBDA x : OwnedBy(x, filters))
            ELSE by_project
        by_tags ==
            IF Has(filters, "tags")
            THEN SelectSeq(by_owner, LAMBDA x : Tagged(x, filters))
            ELSE by_owner
        by_update ==
            IF Has(filters, "updated_since")
            THEN SelectSeq(by_tags, LAMBDA x : UpdatedSince(x, filters))
            ELSE by_tags
    IN  by_update

\* filter_metadata on the projects list: only the project_names block
\* touches filtered_projects.
filter_projects(list, filters) ==
    IF Has(filters, "project_names")
    THEN SelectSeq(list, LAMBDA p : ProjectNamed(p, filters))
    ELSE list

\* The ServerMetadata(...) that filter_metadata builds.
filtered_copy(m, filters) ==
    ServerMetadata(m.server_url, m.version, m.rest_api_version, m.site_id,
                   m.site_name, m.timestamp,
                   filter_content(m.workbooks, filters),
                   filter_content(m.datasources, filters),
                   filter_projects(m.projects, filters),
                   filter_content(m.flows, filters))

\* Mutant: the lists of the instance passed in are replaced and that
\* instance is returned.
filter_metadata_InPlace(heap, i, filters) ==
    [heap |-> [heap EXCEPT ![i] = filtered_copy(heap[i], filters)],
     result |-> i]

\* filter_metadata(metadata, filters) on the object heap: the instance
\* built is a new object, the one passed in is only read.
filter_metadata(heap, i, filters) ==
    [heap |-> Append(heap, filtered_copy(heap[i], filters)),
     result |-> Len(heap) + 1]

FilterInit ==
    /\ metas \in {<<m>> : m \in CollectedMetadata}
    /\ filterCalls = <<>>

FilterIdle ==
    /\ metas = <<>>
    /\ filterCalls = <<>>

\* One call: what was passed in (the object and its content at the time of
\* the call), the filter dict, and the object returned.
FilterCall(i, filters, out, combined) ==
    [src |-> i, input |-> metas[i], filters |-> filters, res |-> out.result,
     combined |-> combined]

ChainCalls == SelectSeq(filterCalls, LAMBDA c : ~c.combined)
ChainKeys == UNION {DOMAIN ChainCalls[n].filters : n \in 1..Len(ChainCalls)}
ChainDone == \E n \in 1..Len(filterCalls) : filterCalls[n].combined

\* filter_metadata is applied to the metadata at hand (the collected one,
\* or the result of the previous call) with keys not used so far.
FilterMetadata(filters) ==
    /\ ~ChainDone
    /\ Len(filterCalls) < MaxFilterChain
    /\ DOMAIN filters \cap ChainKeys = {}
    /\ LET i == Len(metas)
           out == filter_metadata(metas, i, filters)
       IN  /\ metas' = out.heap
           /\ filterCalls' = Append(filterCalls, FilterCall(i, filters, out, FALSE))
    /\ UNCHANGED nonFilterVars

\* filter_metadata is applied to the collected metadata with one dict that
\* holds all the keys and values of the chain.
FilterMetadataCombined ==
    /\ ~ChainDone
    /\ Len(filterCalls) >= 2
    /\ LET filters == [k \in ChainKeys |->
                         LET n == CHOOSE n \in 1..Len(filterCalls) :
                                      k \in DOMAIN filterCalls[n].filters
                         IN  filterCalls[n].filters[k]]
           out == filter_metadata(metas, 1, filters)
       IN  /\ metas' = out.heap
           /\ filterCalls' = Append(filterCalls, FilterCall(1, filters, out, TRUE))
    /\ UNCHANGED nonFilterVars

(***************************************************************************)
(* core/metadata.py and core/storage.py: JSON serialization and the        *)
(* reconstruction of ServerMetadata from the parsed JSON                   *)
(***************************************************************************)

\* A variable that holds nothing yet.
NoValue == <<>>

\* datetime: the calendar date, the time of day, the microseconds (six
\* digits) and the UTC offset of tzinfo ("" for a naive datetime).  A Python
\* str that is the text of a datetime is the sequence of its parts; None
\* as an Optional[datetime] is NoTime.
DateTime(date, time, us, tz) == [date |-> date, time |-> time, us |-> us, tz |-> tz]

DateTimes ==
    {DateTime("2024-01-01", "08:00:00", "000000", ""),
     DateTime("2024-01-01", "08:00:00", "250000", "+00:00"),
     DateTime("2024-06-30", "23:59:59", "000000", "+05:30")}
OptionalDateTimes == DateTimes \cup {NoTime}

\* str(datetime), which json.dumps(..., default=str) applies: isoformat with
\* a blank as separator; the microseconds are written when they are not 0,
\* the offset when the datetime is aware.
str_datetime(dt) ==
    <<dt.date, " ", dt.time>>
        \o (IF dt.us # "000000" THEN <<".", dt.us>> ELSE <<>>)
        \o (IF dt.tz # "" THEN <<dt.tz>> ELSE <<>>)

\* date_str.replace("Z", "+00:00")
replace_Z(text) ==
    [i \in 1..Len(text) |-> IF text[i] = "Z" THEN "+00:00" ELSE text[i]]

\* datetime.fromisoformat: date, any one separator, time, then an optional
\* fraction and an optional offset.
fromisoformat(text) ==
    LET rest == SubSeq(text, 4, Len(text))
        has_us == Len(rest) >= 2 /\ rest[1] = "."
        tail == IF has_us THEN SubSeq(rest, 3, Len(rest)) ELSE rest
    IN  DateTime(text[1], text[3],
                 IF has_us THEN rest[2] ELSE "000000",
                 IF Len(tail) >= 1 THEN tail[1] ELSE "")

\* Mutant: the text is cut after the seconds before it is parsed.
parse_datetime_Seconds(date_str) ==
    IF date_str # <<>>
    THEN fromisoformat(SubSeq(replace_Z(date_str), 1, 3))
    ELSE NoTime

\* _dict_to_metadata.parse_datetime: None and "" give None.
parse_datetime(date_str) ==
    IF date_str # <<>>
    THEN fromisoformat(replace_Z(date_str))
    ELSE NoTime

\* The fields id, name, created_at and updated_at, which the four entity
\* dataclasses share.
Record(id, name, created_at, updated_at) ==
    [id |-> id, name |-> name, created_at |-> created_at, updated_at |-> updated_at]

\* JSON values: null and strings.
JsonNull == [json |-> "null"]
JsonString(text) == [json |-> "string", text |-> text]

\* json.dumps of a field: None is null, a str is a string, and a datetime
\* goes through default=str.
dumps_str(v) == JsonString(v)
dumps_time(v) == IF v = NoTime THEN JsonNull ELSE JsonString(str_datetime(v))

\* json.loads of a value: null is None, a string is its text.
loads_value(j) == IF j.json = "null" THEN NoTime ELSE j.text

dumps_record(r) ==
    [id |-> dumps_str(r.id), name |-> dumps_str(r.name),
     created_at |-> dumps_time(r.created_at),
     updated_at |-> dumps_time(r.updated_at)]

dumps_list(list) == [i \in 1..Len(list) |-> dumps_record(list[i])]

\* metadata_to_json: json.dumps(asdict(metadata), indent=indent, default=str)
metadata_to_json(m) ==
    [server_url |-> dumps_str(m.server_url), version |-> dumps_str(m.version),
     rest_api_version |-> dumps_str(m.rest_api_version),
     site_id |-> dumps_str(m.site_id), site_name |-> dumps_str(m.site_name),
     timestamp |-> dumps_time(m.timestamp),
     workbooks |-> dumps_list(m.workbooks),
     datasources |-> dumps_list(m.datasources),
     projects |-> dumps_list(m.projects),
     flows |-> dumps_list(m.flows)]

\* json.loads: the dict of the document, key by key.
loads_record(j) ==
    [id |-> loads_value(j.id), name |-> loads_value(j.name),
     created_at |-> loads_value(j.created_at),
     updated_at |-> loads_value(j.updated_at)]

loads_list(list) == [i \in 1..Len(list) |-> loads_record(list[i])]

json_loads(doc) ==
    [server_url |-> loads_value(doc.server_url), version |-> loads_value(doc.version),
     rest_api_version |-> loads_value(doc.rest_api_version),
     site_id |-> loads_value(doc.site_id), site_name |-> loads_value(doc.site_name),
     timestamp |-> loads_value(doc.timestamp),
     workbooks |-> loads_list(doc.workbooks),
     datasources |-> loads_list(doc.datasources),
     projects |-> loads_list(doc.projects),
     flows |-> loads_list(doc.flows)]

\* _dict_to_metadata, the loop over data.get("workbooks", [])
workbook_from_dict(wb_data) ==
    Record(wb_data.id, wb_data.name,
           parse_datetime(wb_data.created_at),
           parse_datetime(wb_data.updated_at))

\* Mutant: the other three lists are rebuilt the way the workbooks are.
dict_to_metadata_AllLists(data) ==
    ServerMetadata(data.server_url, data.version, data.rest_api_version,
                   data.site_id, data.site_name, parse_datetime(data.timestamp),
                   [i \in 1..Len(data.workbooks) |-> workbook_from_dict(data.workbooks[i])],
                   [i \in 1..Len(data.datasources) |-> workbook_from_dict(data.datasources[i])],
                   [i \in 1..Len(data.projects) |-> workbook_from_dict(data.projects[i])],
                   [i \in 1..Len(data.flows) |-> workbook_from_dict(data.flows[i])])

\* LocalStorage._dict_to_metadata; S3Storage._dict_to_metadata calls it on a
\* LocalStorage() of its own.  datasources, projects and flows are set to
\* new empty lists.
dict_to_metadata(data) ==
    ServerMetadata(data.server_url, data.version, data.rest_api_version,
                   data.site_id, data.site_name, parse_datetime(data.timestamp),
                   [i \in 1..Len(data.workbooks) |-> workbook_from_dict(data.workbooks[i])],
                   <<>>, <<>>, <<>>)

\* The longest workbook list serialized.
MaxWorkbooks == 2

SerialWorkbooks ==
    {Record(id, "Sales", c, u) :
        id \in {"w1"}, c \in OptionalDateTimes, u \in OptionalDateTimes}
SerialDatasources == {Record("d1", "Orders", NoTime, DateTime("2024-01-01", "08:00:00", "000000", ""))}
SerialProjects == {Record("p1", "P1", NoTime, NoTime)}
SerialFlows == {Record("f1", "Nightly", DateTime("2024-01-01", "08:00:00", "250000", "+00:00"), NoTime)}

UpTo(pool, n) == UNION {[1..k -> pool] : k \in 0..n}

\* create_server_metadata stamps datetime.now(), a naive datetime.
SerialMetadata ==
    {ServerMetadata("https://tableau.example", "2023.1", "3.19", "site", "site",
                    DateTime("2024-07-01", "10:00:00", "123456", ""), w, d, p, f) :
        w \in UpTo(SerialWorkbooks, MaxWorkbooks), d \in UpTo(SerialDatasources, 1),
        p \in UpTo(SerialProjects, 1), f \in UpTo(SerialFlows, 1)}

SerialInit ==
    /\ serMeta \in SerialMetadata
    /\ serJson = NoValue
    /\ serLoaded = NoValue

SerialIdle ==
    /\ serMeta = NoValue
    /\ serJson = NoValue
    /\ serLoaded = NoValue

\* processor.metadata_to_json(metadata)
MetadataToJson ==
    /\ serJson = NoValue
    /\ serJson' = metadata_to_json(serMeta)
    /\ UNCHANGED <<serMeta, serLoaded>>
    /\ UNCHANGED nonSerialVars

\* json.loads(content), then _dict_to_metadata(data)
DictToMetadata ==
    /\ serJson # NoValue
    /\ serLoaded = NoValue
    /\ serLoaded' = dict_to_metadata(json_loads(serJson))
    /\ UNCHANGED <<serMeta, serJson>>
    /\ UNCHANGED nonSerialVars

(***************************************************************************)
(* core/storage.py: LocalStorage and S3Storage, save and load              *)
(***************************************************************************)

\* The relative paths used, and which of them end in ".gz".
StorePaths == {"run1.json", "run2.json.gz"}
endswith_gz(path) == path \in {"run2.json.gz"}

\* The format argument; "xml" stands for any format no backend knows.
StoreFormats == {"json", "json.gz", "csv", "xml"}

\* The metadata saved: one workbook, and the other three lists either all
\* empty or with one entity each.
StoreMetadata ==
    {ServerMetadata("https://tableau.example", "2023.1", "3.19", "site", "site",
                    DateTime("2024-07-01", "10:00:00", "123456", ""),
                    <<Record("w1", "Sales", NoTime, DateTime("2024-01-01", "08:00:00", "250000", "+00:00"))>>,
                    others[1], others[2], others[3]) :
        others \in {<<<<>>, <<>>, <<>>>>,
                    <<<<Record("d1", "Orders", NoTime, NoTime)>>,
                      <<Record("p1", "P1", NoTime, NoTime)>>,
                      <<Record("f1", "Nightly", NoTime, NoTime)>>>>}}

\* What can be at a local path: nothing, a text file, a gzip file, or the
\* directory that a CSV save makes (with the number of data rows of its
\* three files).
Absent == NoValue
TextFile(doc) == [kind |-> "text", doc |-> doc]
GzipFile(doc) == [kind |-> "gzip", doc |-> doc]
CsvDir(m) ==
    [kind |-> "dir",
     rows |-> [workbooks |-> Len(m.workbooks), datasources |-> Len(m.datasources),
               projects |-> Len(m.projects)]]

IsFile(entry) == entry # Absent /\ entry.kind \in {"text", "gzip"}
IsDir(entry) == entry # Absent /\ entry.kind = "dir"

StorageError(prefix, cause) == Raised(Exc("StorageError", <<prefix>> \o cause))

\* LocalStorage.save_metadata: the new content of the path and the outcome.
\* open() on a directory and mkdir() on a file raise, and like the
\* StorageError of the else branch they come out of the except clause as
\* StorageError("Failed to save metadata locally: ...").
local_save(files, m, path, format) ==
    LET fail(cause) ==
            [files |-> files,
             out |-> StorageError("Failed to save metadata locally: ", cause)]
        done(entry) ==
            [files |-> [files EXCEPT ![path] = entry],
             out |-> Returned(<<"tableau_metadata", "/", path>>)]
    IN  CASE format = "json" ->
               IF IsDir(files[path]) THEN fail(<<"Is a directory">>)
               ELSE done(TextFile(metadata_to_json(m)))
          [] format = "json.gz" ->
               IF IsDir(files[path]) THEN fail(<<"Is a directory">>)
               ELSE done(GzipFile(metadata_to_json(m)))
          [] format = "csv" ->
               IF IsFile(files[path]) THEN fail(<<"File exists">>)
               ELSE done(CsvDir(m))
          [] OTHER -> fail(<<"Unsupported format: ", format>>)

\* LocalStorage.load_metadata: the path decides between gzip.open and open.
local_load(files, path) ==
    LET entry == files[path]
        fail(cause) == StorageError("Failed to load metadata locally: ", cause)
    IN  IF entry = Absent THEN fail(<<"Metadata file not found: ", path>>)
        ELSE IF IsDir(entry) THEN fail(<<"Is a directory">>)
        ELSE IF endswith_gz(path) /\ entry.kind # "gzip" THEN fail(<<"Not a gzipped file">>)
        ELSE IF ~endswith_gz(path) /\ entry.kind # "text" THEN fail(<<"invalid start byte">>)
        ELSE Returned(dict_to_metadata(json_loads(entry.doc)))

\* An S3 object: its ContentEncoding ("" when none was given) and its body.
S3Object(encoding, doc) == [encoding |-> encoding, doc |-> doc]

\* S3Storage.save_metadata; sdk_ok tells whether put_object went through.
s3_save(objects, m, path, format, sdk_ok) ==
    LET fail(cause) ==
            [objects |-> objects,
             out |-> StorageError("Failed to save metadata to S3: ", cause)]
        put(obj) ==
            IF sdk_ok
            THEN [objects |-> [objects EXCEPT ![path] = obj],
                  out |-> Returned(<<"s3://", "bucket", "/", "tableau_metadata/", path>>)]
            ELSE fail(<<"ClientError">>)
    IN  CASE format = "json" -> put(S3Object("", metadata_to_json(m)))
          [] format = "json.gz" -> put(S3Object("gzip", metadata_to_json(m)))
          [] OTHER -> fail(<<"Unsupported format: ", format>>)

\* S3Storage.load_metadata; sdk_ok tells whether get_object went through
\* (it does not when there is no object at the key).
s3_load(objects, path, sdk_ok) ==
    IF objects[path] = Absent \/ ~sdk_ok
    THEN StorageError("Failed to load metadata from S3: ", <<"ClientError">>)
    ELSE Returned(dict_to_metadata(json_loads(objects[path].doc)))

StoreCall(name, backend, path, sdk_ok, read, out) ==
    [op |-> name, backend |-> backend, path |-> path, sdk_ok |-> sdk_ok,
     read |-> read, out |-> out]

\* Every relative path of the model: StorePaths and a name without ".json"
\* (collect --format csv names its artifact <site>_<timestamp>.csv),
\* and which of them the pattern "*.json*" of rglob matches.
ArtifactPaths == StorePaths \cup {"run3.csv"}
matches_json(path) == path \in {"run1.json", "run2.json.gz"}

\* The prefix argument of list_metadata_files ("" is its default), and
\* str.startswith on the paths of the model.
ListPrefixes == {"", "run"}
startswith(path, prefix) ==
    \/ prefix = ""
    \/ prefix = "run" /\ path \in {"run1.json", "run2.json.gz"}

\* LocalStorage.list_metadata_files.  With the default prefix the search
\* starts at base_path, and rglob("*.json*") yields every entry, file or
\* directory, whose name matches; the files inside a CSV directory
\* (workbooks.csv, datasources.csv, projects.csv) do not match.  With a
\* prefix the search starts at base_path / prefix, which only a CSV
\* directory of that name makes a directory.  sorted() of distinct names is
\* determined by their set.
local_list(files, prefix) ==
    IF prefix = ""
    THEN Returned({p \in DOMAIN files : files[p] # Absent /\ matches_json(p)})
    ELSE Returned({})

\* LocalStorage.delete_metadata: unlink() removes a file and raises on a
\* directory.
local_delete(files, path) ==
    IF files[path] = Absent
    THEN [files |-> files, out |-> Returned(FALSE)]
    ELSE IF IsDir(files[path])
    THEN [files |-> files,
          out |-> StorageError("Failed to delete metadata file: ", <<"Is a directory">>)]
    ELSE [files |-> [files EXCEPT ![path] = Absent], out |-> Returned(TRUE)]

\* S3Storage.list_metadata_files: every key under self.prefix + prefix, with
\* self.prefix cut off.
s3_list(objects, prefix, sdk_ok) ==
    IF sdk_ok
    THEN Returned({p \in DOMAIN objects : objects[p] # Absent /\ startswith(p, prefix)})
    ELSE StorageError("Failed to list metadata files in S3: ", <<"ClientError">>)

\* S3Storage.delete_metadata: delete_object succeeds whether or not the key
\* exists, and the method then returns True.
s3_delete(objects, path, sdk_ok) ==
    IF sdk_ok
    THEN [objects |-> [objects EXCEPT ![path] = Absent], out |-> Returned(TRUE)]
    ELSE [objects |-> objects,
          out |-> StorageError("Failed to delete metadata file from S3: ", <<"ClientError">>)]

StoreInit ==
    /\ localFiles = [p \in ArtifactPaths |-> Absent]
    /\ s3Objects = [p \in ArtifactPaths |-> Absent]
    /\ storeOut = NoValue
    /\ s3_storage = FALSE

LocalSaveMetadata(m, path, format) ==
    /\ LET r == local_save(localFiles, m, path, format)
       IN  /\ localFiles' = r.files
           /\ storeOut' = StoreCall("save", "local", path, TRUE, NoValue, r.out)
    /\ UNCHANGED <<s3Objects, s3_storage>>
    /\ UNCHANGED nonStoreVars

LocalLoadMetadata(path) ==
    /\ storeOut' = StoreCall("load", "local", path, TRUE, localFiles[path],
                             local_load(localFiles, path))
    /\ UNCHANGED <<localFiles, s3Objects, s3_storage>>
    /\ UNCHANGED nonStoreVars

S3SaveMetadata(m, path, format, sdk_ok) ==
    /\ LET r == s3_save(s3Objects, m, path, format, sdk_ok)
       IN  /\ s3Objects' = r.objects
           /\ storeOut' = StoreCall("save", "s3", path, sdk_ok, NoValue, r.out)
    /\ UNCHANGED <<localFiles, s3_storage>>
    /\ UNCHANGED nonStoreVars

S3LoadMetadata(path, sdk_ok) ==
    /\ storeOut' = StoreCall("load", "s3", path, sdk_ok, s3Objects[path],
                             s3_load(s3Objects, path, sdk_ok))
    /\ UNCHANGED <<localFiles, s3Objects, s3_storage>>
    /\ UNCHANGED nonStoreVars

LocalListMetadataFiles(prefix) ==
    /\ storeOut' = StoreCall("list", "local", prefix, TRUE, NoValue,
                             local_list(localFiles, prefix))
    /\ UNCHANGED <<localFiles, s3Objects, s3_storage>>
    /\ UNCHANGED nonStoreVars

LocalDeleteMetadata(path) ==
    /\ LET r == local_delete(localFiles, path)
       IN  /\ localFiles' = r.files
           /\ storeOut' = StoreCall("delete", "local", path, TRUE, localFiles[path], r.out)
    /\ UNCHANGED <<s3Objects, s3_storage>>
    /\ UNCHANGED nonStoreVars

S3ListMetadataFiles(prefix, sdk_ok) ==
    /\ storeOut' = StoreCall("list", "s3", prefix, sdk_ok, NoValue,
                             s3_list(s3Objects, prefix, sdk_ok))
    /\ UNCHANGED <<localFiles, s3Objects, s3_storage>>
    /\ UNCHANGED nonStoreVars

S3DeleteMetadata(path, sdk_ok) ==
    /\ LET r == s3_delete(s3Objects, path, sdk_ok)
       IN  /\ s3Objects' = r.objects
           /\ storeOut' = StoreCall("delete", "s3", path, sdk_ok, s3Objects[path], r.out)
    /\ UNCHANGED <<localFiles, s3_storage>>
    /\ UNCHANGED nonStoreVars

\* The same call on a LocalStorage and on an S3Storage whose SDK calls go
\* through; the outcome of each is kept side by side.
BothCall(name, path, local_out, s3_out) ==
    [op |-> name, path |-> path, local |-> local_out, s3 |-> s3_out]

BothSaveMetadata(m, path, format) ==
    /\ LET l == local_save(localFiles, m, path, format)
           r == s3_save(s3Objects, m, path, format, TRUE)
       IN  /\ localFiles' = l.files
           /\ s3Objects' = r.objects
           /\ storeOut' = BothCall("save", path, l.out, r.out)
    /\ UNCHANGED s3_storage
    /\ UNCHANGED nonStoreVars

BothLoadMetadata(path) ==
    /\ storeOut' = BothCall("load", path, local_load(localFiles, path),
                            s3_load(s3Objects, path, TRUE))
    /\ UNCHANGED <<localFiles, s3Objects, s3_storage>>
    /\ UNCHANGED nonStoreVars

BothListMetadataFiles(prefix) ==
    /\ storeOut' = BothCall("list", prefix, local_list(localFiles, prefix),
                            s3_list(s3Objects, prefix, TRUE))
    /\ UNCHANGED <<localFiles, s3Objects, s3_storage>>
    /\ UNCHANGED nonStoreVars

BothDeleteMetadata(path) ==
    /\ LET l == local_delete(localFiles, path)
           r == s3_delete(s3Objects, path, TRUE)
       IN  /\ localFiles' = l.files
           /\ s3Objects' = r.objects
           /\ storeOut' = BothCall("delete", path, l.out, r.out)
    /\ UNCHANGED s3_storage
    /\ UNCHANGED nonStoreVars

\* StorageManager: the backend lists of the model ("ftp" stands for any
\* name that is neither "local" nor "s3"; ["local"] is the default) and the
\* filename saved under.
BackendLists ==
    {<<>>, <<"local">>, <<"s3">>, <<"ftp">>, <<"local", "s3">>, <<"s3", "local">>,
     <<"local", "local">>}
ManagerFilenames == {"run1.json"}

\* results[name] = location
Put(results, name, location) ==
    [b \in DOMAIN results \cup {name} |-> IF b = name THEN location ELSE results[b]]

\* Mutant: the mapping is started again for every backend.
manager_save_LastOnly(files, objects, s3, m, filename, backends, format, sdk_ok) ==
    LET start == [files |-> files, objects |-> objects, results |-> <<>>, raised |-> NoValue]
        step(st, backend) ==
            IF st.raised # NoValue THEN st
            ELSE IF backend = "local"
            THEN LET r == local_save(st.files, m, filename, format)
                 IN  IF r.out.status = "raise" THEN [st EXCEPT !.raised = r.out]
                     ELSE [st EXCEPT !.files = r.files,
                                     !.results = Put(<<>>, "local", r.out.value)]
            ELSE IF backend = "s3" /\ s3
            THEN LET r == s3_save(st.objects, m, filename, format, sdk_ok)
                 IN  IF r.out.status = "raise" THEN [st EXCEPT !.raised = r.out]
                     ELSE [st EXCEPT !.objects = r.objects,
                                     !.results = Put(<<>>, "s3", r.out.value)]
            ELSE [st EXCEPT !.raised = StorageError("Unsupported backend: ", <<backend>>)]
        run[i \in 0..Len(backends)] ==
            IF i = 0 THEN start ELSE step(run[i - 1], backends[i])
        final == run[Len(backends)]
    IN  [files |-> final.files, objects |-> final.objects,
         out |-> IF final.raised # NoValue THEN final.raised ELSE Returned(final.results)]

\* StorageManager.save_metadata: the backends are saved to one after the
\* other; an exception of a backend, or a name that is not a configured
\* backend, ends the loop where it stands.
manager_save(files, objects, s3, m, filename, backends, format, sdk_ok) ==
    LET start == [files |-> files, objects |-> objects, results |-> <<>>, raised |-> NoValue]
        step(st, backend) ==
            IF st.raised # NoValue THEN st
            ELSE IF backend = "local"
            THEN LET r == local_save(st.files, m, filename, format)
                 IN  IF r.out.status = "raise" THEN [st EXCEPT !.raised = r.out]
                     ELSE [st EXCEPT !.files = r.files,
                                     !.results = Put(st.results, "local", r.out.value)]
            ELSE IF backend = "s3" /\ s3
            THEN LET r == s3_save(st.objects, m, filename, format, sdk_ok)
                 IN  IF r.out.status = "raise" THEN [st EXCEPT !.raised = r.out]
                     ELSE [st EXCEPT !.objects = r.objects,
                                     !.results = Put(st.results, "s3", r.out.value)]
            ELSE [st EXCEPT !.raised = StorageError("Unsupported backend: ", <<backend>>)]
        run[i \in 0..Len(backends)] ==
            IF i = 0 THEN start ELSE step(run[i - 1], backends[i])
        final == run[Len(backends)]
    IN  [files |-> final.files, objects |-> final.objects,
         out |-> IF final.raised # NoValue THEN final.raised ELSE Returned(final.results)]

\* StorageManager.load_metadata
manager_load(files, objects, s3, filename, backend, sdk_ok) ==
    IF backend = "local" THEN local_load(files, filename)
    ELSE IF backend = "s3" /\ s3 THEN s3_load(objects, filename, sdk_ok)
    ELSE StorageError("Unsupported backend: ", <<backend>>)

ManagerCall(name, m, filename, backends, format, out) ==
    [op |-> name, metadata |-> m, filename |-> filename, backends |-> backends,
     format |-> format, out |-> out]

\* StorageManager(local_storage, s3_storage): with or without an S3Storage.
ManagerInit ==
    /\ localFiles = [p \in ArtifactPaths |-> Absent]
    /\ s3Objects = [p \in ArtifactPaths |-> Absent]
    /\ storeOut = NoValue
    /\ s3_storage \in BOOLEAN

ManagerSaveMetadata(m, filename, backends, format, sdk_ok) ==
    /\ LET r == manager_save(localFiles, s3Objects, s3_storage, m, filename, backends,
                             format, sdk_ok)
       IN  /\ localFiles' = r.files
           /\ s3Objects' = r.objects
           /\ storeOut' = ManagerCall("manager_save", m, filename, backends, format, r.out)
    /\ UNCHANGED s3_storage
    /\ UNCHANGED nonStoreVars

ManagerLoadMetadata(filename, backend, sdk_ok) ==
    /\ storeOut' = ManagerCall("manager_load", NoValue, filename, <<backend>>, "",
                               manager_load(localFiles, s3Objects, s3_storage, filename,
                                            backend, sdk_ok))
    /\ UNCHANGED <<localFiles, s3Objects, s3_storage>>
    /\ UNCHANGED nonStoreVars

(***************************************************************************)
(* cli/commands/metadata.py: what successive collect runs save              *)
(***************************************************************************)

\* How far the clock goes and how many runs are made.
MaxClock == 4
MaxRuns == 3

\* The instants of datetime.now(), half a second apart: instant i is
\* 10:00:00 plus i half seconds.
TimeText == <<"10:00:00", "10:00:01", "10:00:02", "10:00:03", "10:00:04", "10:00:05">>
Instant(i) ==
    DateTime("2024-07-01", TimeText[(i \div 2) + 1],
             IF i % 2 = 0 THEN "000000" ELSE "500000", "")

\* config.site_id, a str as the sequence of its characters: the Default
\* site ("") and the site "hr".
SiteIds == {<<>>, <<"h", "r">>}
DefaultName == <<"d", "e", "f", "a", "u", "l", "t">>

\* x or "default"
or_default(x) == IF x = <<>> THEN DefaultName ELSE x

\* site_name.replace(" ", "_").replace("/", "_")
replace_separators(name) ==
    [i \in 1..Len(name) |-> IF name[i] \in {" ", "/"} THEN "_" ELSE name[i]]

\* timestamp.strftime("%Y%m%d_%H%M%S"): the date and the time of day to the
\* second; the microseconds are not written.
strftime(dt) == <<dt.date, "_", dt.time>>

\* StorageManager.generate_filename(metadata), include_timestamp=True
generate_filename(metadata) ==
    <<replace_separators(or_default(metadata.site_name)), "_",
      strftime(metadata.timestamp), <<".json">>>>

\* collect: filename.replace(".json", f".{format}") when format != "json"
replace_extension(filename, format) ==
    IF format # "json" THEN [filename EXCEPT ![4] = <<".", format>>] ELSE filename

\* collect: create_server_metadata(...) for a site at an instant; the lists
\* are those of a server without content.
collected_metadata(site_id, now) ==
    ServerMetadata("https://tableau.example", "2023.1", "3.19", site_id,
                   or_default(site_id), now, <<>>, <<>>, <<>>, <<>>)

\* --format and the storage_backends of a run that has --save-s3
CollectFormats == {"json", "json.gz", "csv"}
CollectBackends == {<<"s3">>, <<"local", "s3">>}

\* Every filename a run of the model can save under.
CollectFilenames ==
    {replace_extension(generate_filename(collected_metadata(site_id, Instant(i))), format) :
        site_id \in SiteIds, i \in 0..MaxClock, format \in CollectFormats}

RunsInit ==
    /\ localFiles = [p \in CollectFilenames |-> Absent]
    /\ s3Objects = [p \in CollectFilenames |-> Absent]
    /\ storeOut = NoValue
    /\ s3_storage = TRUE
    /\ clock = 0
    /\ runs = 0

RunsIdle ==
    /\ clock = 0
    /\ runs = 0

\* One collect run with --save-s3, from create_server_metadata to the end:
\* elapsed is the time since the previous run took its timestamp.  The run
\* succeeds when save_metadata returns.
CollectRun(site_id, format, backends, sdk_ok, elapsed) ==
    /\ runs < MaxRuns
    /\ clock + elapsed <= MaxClock
    /\ clock' = clock + elapsed
    /\ LET server_metadata == collected_metadata(site_id, Instant(clock'))
           filename == replace_extension(generate_filename(server_metadata), format)
           r == manager_save(localFiles, s3Objects, s3_storage, server_metadata, filename,
                             backends, format, sdk_ok)
       IN  /\ localFiles' = r.files
           /\ s3Objects' = r.objects
           /\ storeOut' = ManagerCall("collect", server_metadata, filename, backends, format, r.out)
           /\ runs' = IF r.out.status = "return" THEN runs + 1 ELSE runs
    /\ UNCHANGED s3_storage
    /\ UNCHANGED nonRunVars

(***************************************************************************)
(* cli/commands/metadata.py: one collect run, its enrichment fetches and    *)
(* its sessions                                                             *)
(***************************************************************************)

\* How many workbooks get_workbooks returns at most.
MaxItems == 2

WorkbookIds == <<"w1", "w2", "w3", "w4">>
WorkbookLists == {SubSeq(WorkbookIds, 1, n) : n \in 0..MaxItems}
DatasourceLists == {<<>>, <<"d1">>}

\* An Optional value that is a list or a dict: None is NoValue.
Some(v) == <<v>>

\* How a fetch can end.  A lineage fetch signs in first
\* (TableauMetadataClient._authenticate) and then posts the query.
FetchOutcomes == {"ok", "fail"}
LineageOutcomes == {"ok", "auth_fails", "query_fails"}

\* The session of client.connection(), and the session that the n-th
\* sign-in of a TableauMetadataClient opens.
ConnectionSession == 0
MetadataSession(live) == Cardinality(live \cup {ConnectionSession})

\* A lineage fetch whose sign-in fails reaches no session.
NoSession == -1

Call(item, field, outcome, session) ==
    [item |-> item, field |-> field, outcome |-> outcome, session |-> session]

\* Mutant: the fetch is not inside try/except, its exception leaves the loop.
enrich_NoCatch(requested, outcome, fetched) ==
    IF ~requested THEN [value |-> NoValue, warned |-> FALSE, raised |-> FALSE]
    ELSE IF outcome = "ok" THEN [value |-> Some(fetched), warned |-> FALSE, raised |-> FALSE]
    ELSE [value |-> NoValue, warned |-> FALSE, raised |-> TRUE]

\* collect: `x = None; if include_x: try: x = fetch() except Exception:
\* print warning` - the value of x afterwards, whether a warning was
\* printed, and whether an exception left the block.
enrich(requested, outcome, fetched) ==
    IF ~requested THEN [value |-> NoValue, warned |-> FALSE, raised |-> FALSE]
    ELSE IF outcome = "ok" THEN [value |-> Some(fetched), warned |-> FALSE, raised |-> FALSE]
    ELSE [value |-> NoValue, warned |-> TRUE, raised |-> FALSE]

\* MetadataProcessor.process_workbook: views and connections that are None
\* or empty give an empty list, lineage is kept as it is.
process_workbook(workbook, views, connections, lineage) ==
    [id |-> workbook,
     views |-> IF views = NoValue THEN <<>> ELSE views[1],
     connections |-> IF connections = NoValue THEN <<>> ELSE connections[1],
     lineage |-> lineage]

\* MetadataProcessor.process_datasource
process_datasource(datasource, connections, lineage) ==
    [id |-> datasource,
     connections |-> IF connections = NoValue THEN <<>> ELSE connections[1],
     lineage |-> lineage]

\* The warnings and the calls of one item, in the order of the code.
ItemWarnings(item, fields, results) ==
    LET one(k) == IF results[k].warned THEN <<<<item, fields[k]>>>> ELSE <<>>
        all[k \in 0..Len(fields)] == IF k = 0 THEN <<>> ELSE all[k - 1] \o one(k)
    IN  all[Len(fields)]

\* The fetches of one item: a REST fetch uses the session of connection(); a
\* lineage fetch that gets past its sign-in uses the session it opened.
ItemCalls(item, fields, requested, outcomes, live) ==
    LET one(k) ==
            IF ~requested[k] THEN <<>>
            ELSE IF fields[k] # "lineage"
            THEN <<Call(item, fields[k], outcomes[k], ConnectionSession)>>
            ELSE IF outcomes[k] = "auth_fails"
            THEN <<Call(item, fields[k], outcomes[k], NoSession)>>
            ELSE <<Call(item, fields[k], outcomes[k], MetadataSession(live))>>
        all[k \in 0..Len(fields)] == IF k = 0 THEN <<>> ELSE all[k - 1] \o one(k)
    IN  all[Len(fields)]

\* TableauMetadataClient._authenticate: a sign-in of its own, whose session
\* nothing signs out.
after_lineage(live, requested, outcome) ==
    IF requested /\ outcome # "auth_fails" THEN live \cup {MetadataSession(live)} ELSE live

CollectInit ==
    /\ cpc = "start"
    /\ include \in [views : BOOLEAN, connections : BOOLEAN, lineage : BOOLEAN]
    /\ workbooks_data = <<>>
    /\ datasources_data = <<>>
    /\ processed_workbooks = <<>>
    /\ processed_datasources = <<>>
    /\ warnings = <<>>
    /\ calls = <<>>
    /\ sessions = {}

CollectIdle ==
    /\ cpc = "start"
    /\ include = [views |-> FALSE, connections |-> FALSE, lineage |-> FALSE]
    /\ workbooks_data = <<>>
    /\ datasources_data = <<>>
    /\ processed_workbooks = <<>>
    /\ processed_datasources = <<>>
    /\ warnings = <<>>
    /\ calls = <<>>
    /\ sessions = {}

\* with client.connection(): the sign-in of the authenticator.
CollectConnect(ok) ==
    /\ cpc = "start"
    /\ cpc' = IF ok THEN "connected" ELSE "connect_failed"
    /\ sessions' = IF ok THEN sessions \cup {ConnectionSession} ELSE sessions
    /\ UNCHANGED <<include, workbooks_data, datasources_data, processed_workbooks,
                   processed_datasources, warnings, calls>>
    /\ UNCHANGED nonCollectVars

\* get_server_info, get_projects, get_workbooks, get_datasources, get_flows;
\* a failure of one of them leaves the with block, which signs out.
CollectLists(ok, wbs, dss) ==
    /\ cpc = "connected"
    /\ calls' = calls \o <<Call("", "lists", IF ok THEN "ok" ELSE "fail", ConnectionSession)>>
    /\ IF ok
       THEN /\ cpc' = "items"
            /\ workbooks_data' = wbs
            /\ datasources_data' = dss
            /\ UNCHANGED sessions
       ELSE /\ cpc' = "list_failed"
            /\ sessions' = sessions \ {ConnectionSession}
            /\ UNCHANGED <<workbooks_data, datasources_data>>
    /\ UNCHANGED <<include, processed_workbooks, processed_datasources, warnings>>
    /\ UNCHANGED nonCollectVars

\* One turn of `for wb in workbooks_data`.
CollectWorkbook(views_out, connections_out, lineage_out) ==
    /\ cpc = "items"
    /\ Len(processed_workbooks) < Len(workbooks_data)
    /\ LET wb == workbooks_data[Len(processed_workbooks) + 1]
           views == enrich(include.views, views_out, <<"view">>)
           connections == enrich(include.connections, connections_out, <<"connection">>)
           lineage == enrich(include.lineage, lineage_out, "lineage")
           fields == <<"views", "connections", "lineage">>
           results == <<views, connections, lineage>>
       IN  /\ warnings' = warnings \o ItemWarnings(wb, fields, results)
           /\ calls' = calls \o ItemCalls(wb, fields,
                                          <<include.views, include.connections, include.lineage>>,
                                          <<views_out, connections_out, lineage_out>>, sessions)
           /\ sessions' = after_lineage(sessions, include.lineage, lineage_out)
           /\ IF views.raised \/ connections.raised \/ lineage.raised
              THEN /\ cpc' = "enrichment_failed"
                   /\ UNCHANGED processed_workbooks
              ELSE /\ cpc' = cpc
                   /\ processed_workbooks' =
                         Append(processed_workbooks,
                                process_workbook(wb, views.value, connections.value,
                                                 lineage.value))
    /\ UNCHANGED <<include, workbooks_data, datasources_data, processed_datasources>>
    /\ UNCHANGED nonCollectVars

\* One turn of `for ds in datasources_data`.
CollectDatasource(connections_out, lineage_out) ==
    /\ cpc = "items"
    /\ Len(processed_workbooks) = Len(workbooks_data)
    /\ Len(processed_datasources) < Len(datasources_data)
    /\ LET ds == datasources_data[Len(processed_datasources) + 1]
           connections == enrich(include.connections, connections_out, <<"connection">>)
           lineage == enrich(include.lineage, lineage_out, "lineage")
           fields == <<"connections", "lineage">>
           results == <<connections, lineage>>
       IN  /\ warnings' = warnings \o ItemWarnings(ds, fields, results)
           /\ calls' = calls \o ItemCalls(ds, fields, <<include.connections, include.lineage>>,
                                          <<connections_out, lineage_out>>, sessions)
           /\ sessions' = after_lineage(sessions, include.lineage, lineage_out)
           /\ IF connections.raised \/ lineage.raised
              THEN /\ cpc' = "enrichment_failed"
                   /\ UNCHANGED processed_datasources
              ELSE /\ cpc' = cpc
                   /\ processed_datasources' =
                         Append(processed_datasources,
                                process_datasource(ds, connections.value, lineage.value))
    /\ UNCHANGED <<include, workbooks_data, datasources_data, processed_workbooks>>
    /\ UNCHANGED nonCollectVars

\* Both loops are through: the metadata is created and shown or saved, and
\* the with block signs the connection out.
CollectFinish ==
    /\ cpc = "items"
    /\ Len(processed_workbooks) = Len(workbooks_data)
    /\ Len(processed_datasources) = Len(datasources_data)
    /\ cpc' = "done"
    /\ sessions' = sessions \ {ConnectionSession}
    /\ UNCHANGED <<include, workbooks_data, datasources_data, processed_workbooks,
                   processed_datasources, warnings, calls>>
    /\ UNCHANGED nonCollectVars

(***************************************************************************)
(* cli/: the commands and their except clauses                              *)
(***************************************************************************)

AuthCommands == {"auth setup", "auth test", "auth info"}
ExploreCommands ==
    {"explore workbooks", "explore datasources", "explore projects", "explore workbook",
     "explore search"}
MetadataCommands == {"metadata collect", "metadata list", "metadata show", "metadata lineage"}
ExportCommands == {"export metadata", "export report"}
MainCommands == {"config", "version"}
Commands ==
    AuthCommands \cup ExploreCommands \cup MetadataCommands \cup ExportCommands
        \cup MainCommands

\* What the body of a command can raise: the kinds of the taxonomy and an
\* exception outside of it.
BodyErrors == TaxonomyKinds \cup {"OSError"}

\* isinstance(e, class) for the classes the except clauses name.
IsInstance(kind, class) ==
    \/ class = "Exception"
    \/ class = "TableauAPIError" /\ kind \in TaxonomyKinds
    \/ class = kind

\* except <classes> as e: console.print(f"[red]<prefix>{str(e)}[/red]"),
\* followed by exit(1) or not.
ExceptClause(classes, prefix, exits) ==
    [classes |-> classes, prefix |-> prefix, exits |-> exits]

ThreeClauses ==
    <<ExceptClause({"ConfigurationError"}, "Configuration error: ", TRUE),
      ExceptClause({"TableauAPIError"}, "API error: ", TRUE),
      ExceptClause({"Exception"}, "Unexpected error: ", TRUE)>>

auth_clauses(cmd) ==
    CASE cmd = "auth setup" ->
           <<ExceptClause({"AuthenticationError", "ConfigurationError"},
                          "Authentication error: ", TRUE),
             ExceptClause({"Exception"}, "Unexpected error: ", TRUE)>>
      [] cmd = "auth test" ->
           <<ExceptClause({"ConfigurationError"}, "Configuration error: ", TRUE),
             ExceptClause({"AuthenticationError"}, "Authentication failed: ", TRUE),
             ExceptClause({"Exception"}, "Unexpected error: ", TRUE)>>
      [] cmd = "auth info" ->
           <<ExceptClause({"ConfigurationError"}, "No configuration found: ", TRUE),
             ExceptClause({"Exception"}, "Error: ", TRUE)>>

explore_clauses(cmd) == ThreeClauses

metadata_clauses(cmd) ==
    IF cmd \in {"metadata collect", "metadata lineage"} THEN ThreeClauses
    ELSE <<ExceptClause({"Exception"}, "Error: ", TRUE)>>

export_clauses(cmd) ==
    IF cmd = "export report" THEN ThreeClauses
    ELSE <<ExceptClause({"Exception"}, "Error: ", TRUE)>>

\* config: the try around create_auth_config_from_env and the try around
\* the whole body; neither handler exits.  version has no try.
main_clauses(cmd) ==
    IF cmd = "config"
    THEN <<ExceptClause({"Exception"}, "No valid configuration found: ", FALSE),
           ExceptClause({"Exception"}, "Error: ", FALSE)>>
    ELSE <<>>

\* main(): what reaches it from cli()
entry_clauses ==
    <<ExceptClause({"TableauAPIError"}, "Error: ", TRUE),
      ExceptClause({"Exception"}, "Unexpected error: ", TRUE)>>

command_clauses(cmd) ==
    (CASE cmd \in AuthCommands -> auth_clauses(cmd)
       [] cmd \in ExploreCommands -> explore_clauses(cmd)
       [] cmd \in MetadataCommands -> metadata_clauses(cmd)
       [] cmd \in ExportCommands -> export_clauses(cmd)
       [] cmd \in MainCommands -> main_clauses(cmd)) \o entry_clauses

\* The first except clause that catches the exception.
handle(cmd, kind) ==
    LET clauses == command_clauses(cmd)
        catches(k) == \E class \in clauses[k].classes : IsInstance(kind, class)
        first == CHOOSE k \in 1..Len(clauses) :
                    catches(k) /\ \A j \in 1..(k - 1) : ~catches(j)
    IN  clauses[first]

\* The checks a command body makes itself: the message it prints in red,
\* and whether exit(1) or a plain return follows.
BodyCheck(message, exits) == [message |-> message, exits |-> exits]
BodyChecks(cmd) ==
    (IF cmd \in {"metadata collect", "metadata list", "metadata show", "export metadata"}
     THEN {BodyCheck("S3 bucket name required", TRUE)} ELSE {})
    \cup
    (IF cmd = "export metadata"
     THEN {BodyCheck("Invalid selection", FALSE),
           BodyCheck("openpyxl library required for Excel export", TRUE)}
     ELSE {})

Running == -1

CliInit ==
    /\ command = ""
    /\ cliError = ""
    /\ printed = <<>>
    /\ exitStatus = Running

CliInvoke(cmd) ==
    /\ command = ""
    /\ command' = cmd
    /\ UNCHANGED <<cliError, printed, exitStatus>>
    /\ UNCHANGED nonCliVars

\* The body runs to its end; click ends the process with status 0.
CliBodyReturns ==
    /\ command # ""
    /\ exitStatus = Running
    /\ exitStatus' = 0
    /\ UNCHANGED <<command, cliError, printed>>
    /\ UNCHANGED nonCliVars

\* The body raises; the first matching except clause prints its message
\* and calls exit(1), or lets the command return.
CliBodyRaises(kind) ==
    /\ command # ""
    /\ exitStatus = Running
    /\ LET clause == handle(command, kind)
       IN  /\ cliError' = kind
           /\ printed' = Append(printed, clause.prefix)
           /\ exitStatus' = IF clause.exits THEN 1 ELSE 0
    /\ UNCHANGED command
    /\ UNCHANGED nonCliVars

\* A check of the body fails.
CliCheckFails(check) ==
    /\ command # ""
    /\ exitStatus = Running
    /\ check \in BodyChecks(command)
    /\ cliError' = "check"
    /\ printed' = Append(printed, check.message)
    /\ exitStatus' = IF check.exits THEN 1 ELSE 0
    /\ UNCHANGED command
    /\ UNCHANGED nonCliVars

(***************************************************************************)
(* The wrapper boundaries of the core layer: which except clauses stand    *)
(* around each library/SDK call of each operation                          *)
(***************************************************************************)

\* except <classes> as e: raise <kind>(f"<prefix>{str(e)}"), or
\* raise <kind>("<prefix>") when the clause does not use e.
Wrapper(classes, kind, prefix, uses_e) ==
    [classes |-> classes, kind |-> kind, prefix |-> prefix, uses_e |-> uses_e]

\* A library/SDK call of a core operation: the library called and the try
\* statements around the call, innermost first, each with its except
\* clauses in order.
Site(operation, call, library, frames) ==
    [operation |-> operation, call |-> call, library |-> library, frames |-> frames]

authenticate_frame ==
    <<Wrapper({"Exception"}, "AuthenticationError", "Authentication failed: ", TRUE)>>

AuthenticatorSites ==
    {Site("TableauAuthenticator.authenticate", "server.auth.sign_in", "tsc",
          <<authenticate_frame>>),
     Site("TableauAuthenticator.sign_out", "server.auth.sign_out", "tsc",
          <<(<<Wrapper({"Exception"}, "AuthenticationError", "Sign out failed: ", TRUE)>>)>>)}

DetailOps ==
    {"get_sites", "get_workbook_details", "get_datasource_details", "search_content",
     "get_workbook_views", "get_workbook_connections", "get_datasource_connections",
     "get_server_info"}

DetailPrefix(o) ==
    CASE o = "get_sites" -> "Failed to get sites: "
      [] o = "get_workbook_details" -> "Failed to get workbook details: "
      [] o = "get_datasource_details" -> "Failed to get data source details: "
      [] o = "search_content" -> "Failed to search content: "
      [] o = "get_workbook_views" -> "Failed to get workbook views: "
      [] o = "get_workbook_connections" -> "Failed to get workbook connections: "
      [] o = "get_datasource_connections" -> "Failed to get data source connections: "
      [] o = "get_server_info" -> "Failed to get server info: "

ClientSites ==
    {Site("TableauClient.connection", "server.auth.sign_in", "tsc",
          <<authenticate_frame,
            <<Wrapper({"Exception"}, "ConnectionError",
                      "Failed to connect to Tableau Server: ", TRUE)>>>>)}
    \cup
    {Site("TableauClient." \o o, "_retry_operation", "tsc",
          <<(<<Wrapper({"Exception"}, "TableauAPIError", FailurePrefix(o), TRUE)>>)>>)
        : o \in ListOps}
    \cup
    {Site("TableauClient." \o o, "server endpoint", "tsc",
          <<(<<Wrapper({"Exception"}, "TableauAPIError", DetailPrefix(o), TRUE)>>)>>)
        : o \in DetailOps}

\* query() calls _authenticate() before its try statement.
MetadataClientSites ==
    {Site("TableauMetadataClient.query", "server.auth.sign_in", "tsc",
          <<authenticate_frame>>),
     Site("TableauMetadataClient.query", "session.post", "requests",
          <<(<<Wrapper({"Exception"}, "TableauAPIError", "GraphQL query failed: ", TRUE)>>)>>)}

ProcessorOps ==
    {"process_workbook", "process_datasource", "process_project", "process_flow",
     "create_server_metadata", "filter_metadata", "metadata_to_dict", "metadata_to_json",
     "get_metadata_summary"}

ProcessorPrefix(o) ==
    CASE o = "process_workbook" -> "Failed to process workbook metadata: "
      [] o = "process_datasource" -> "Failed to process datasource metadata: "
      [] o = "process_project" -> "Failed to process project metadata: "
      [] o = "process_flow" -> "Failed to process flow metadata: "
      [] o = "create_server_metadata" -> "Failed to create server metadata: "
      [] o = "filter_metadata" -> "Failed to filter metadata: "
      [] o = "metadata_to_dict" -> "Failed to convert metadata to dict: "
      [] o = "metadata_to_json" -> "Failed to convert metadata to JSON: "
      [] o = "get_metadata_summary" -> "Failed to generate metadata summary: "

ProcessorSites ==
    {Site("MetadataProcessor." \o o, "attribute access", "python",
          <<(<<Wrapper({"Exception"}, "MetadataError", ProcessorPrefix(o), TRUE)>>)>>)
        : o \in ProcessorOps}

BackendOps == {"save_metadata", "load_metadata", "list_metadata_files", "delete_metadata"}

LocalPrefix(o) ==
    CASE o = "save_metadata" -> "Failed to save metadata locally: "
      [] o = "load_metadata" -> "Failed to load metadata locally: "
      [] o = "list_metadata_files" -> "Failed to list metadata files: "
      [] o = "delete_metadata" -> "Failed to delete metadata file: "

S3Prefix(o) ==
    CASE o = "save_metadata" -> "Failed to save metadata to S3: "
      [] o = "load_metadata" -> "Failed to load metadata from S3: "
      [] o = "list_metadata_files" -> "Failed to list metadata files in S3: "
      [] o = "delete_metadata" -> "Failed to delete metadata file from S3: "

local_frame(o) == <<Wrapper({"Exception"}, "StorageError", LocalPrefix(o), TRUE)>>
s3_frame(o) == <<Wrapper({"Exception"}, "StorageError", S3Prefix(o), TRUE)>>

\* LocalStorage.__init__ calls base_path.mkdir() outside of any try.
LocalStorageSites ==
    {Site("LocalStorage.__init__", "base_path.mkdir", "os", <<>>)}
    \cup
    {Site("LocalStorage." \o o, "filesystem", "os", <<local_frame(o)>>) : o \in BackendOps}

\* S3Storage.__init__ has two except clauses, neither for Exception, and
\* the first one does not use the exception it caught.
s3_init_frame ==
    <<Wrapper({"NoCredentialsError"}, "StorageError", "AWS credentials not found", FALSE),
      Wrapper({"ClientError"}, "StorageError", "Failed to connect to S3: ", TRUE)>>

S3StorageSites ==
    {Site("S3Storage.__init__", "s3_client.head_bucket", "boto", <<s3_init_frame>>)}
    \cup
    {Site("S3Storage." \o o, "s3_client", "boto", <<s3_frame(o)>>) : o \in BackendOps}

\* StorageManager.__init__ builds a LocalStorage when it is given none; its
\* save_metadata and load_metadata have no try of their own around the
\* backend they call.
StorageManagerSites ==
    {Site("StorageManager.__init__", "base_path.mkdir", "os", <<>>),
     Site("StorageManager.save_metadata", "filesystem", "os",
          <<local_frame("save_metadata")>>),
     Site("StorageManager.save_metadata", "s3_client", "boto",
          <<s3_frame("save_metadata")>>),
     Site("StorageManager.load_metadata", "filesystem", "os",
          <<local_frame("load_metadata")>>),
     Site("StorageManager.load_metadata", "s3_client", "boto",
          <<s3_frame("load_metadata")>>)}

CoreSites ==
    AuthenticatorSites \cup ClientSites \cup MetadataClientSites \cup ProcessorSites
        \cup LocalStorageSites \cup S3StorageSites \cup StorageManagerSites

\* What each library raises.
LibraryExceptions(library) ==
    CASE library = "tsc" -> SdkErrors
      [] library = "requests" ->
           {Exc("HTTPError", <<"401 Client Error">>),
            Exc("ConnectionError(requests)", <<"connection refused">>)}
      [] library = "python" ->
           {Exc("AttributeError", <<"object has no attribute">>)}
      [] library = "os" ->
           {Exc("PermissionError", <<"[Errno 13] Permission denied">>),
            Exc("FileExistsError", <<"[Errno 17] File exists">>)}
      [] library = "boto" ->
           {Exc("NoCredentialsError", <<"Unable to locate credentials">>),
            Exc("ClientError", <<"An error occurred (403)">>),
            Exc("EndpointConnectionError", <<"Could not connect to the endpoint URL">>)}

\* One try statement: the first clause that catches e raises its own
\* exception; e goes on when no clause catches it.
through_frame(frame, e) ==
    LET catches(k) == \E class \in frame[k].classes : IsInstance(e.kind, class)
    IN  IF \E k \in 1..Len(frame) : catches(k)
        THEN LET first == CHOOSE k \in 1..Len(frame) :
                              catches(k) /\ \A j \in 1..(k - 1) : ~catches(j)
                 clause == frame[first]
             IN  Exc(clause.kind,
                     IF clause.uses_e THEN <<clause.prefix>> \o e.msg
                     ELSE <<clause.prefix>>)
        ELSE e

\* The exception that leaves the operation when the call raises e.
RECURSIVE propagate(_, _)
propagate(frames, e) ==
    IF frames = <<>> THEN e
    ELSE propagate(Tail(frames), through_frame(Head(frames), e))

CoreInit ==
    /\ coreSite = NoValue
    /\ coreCause = NoValue
    /\ coreOut = NoValue

\* A core operation is called and reaches one of its library calls.
CoreCall(site) ==
    /\ coreSite' = site
    /\ coreCause' = NoValue
    /\ coreOut' = NoValue
    /\ UNCHANGED nonCoreVars

\* The library call returns and so does the operation.
CoreReturns ==
    /\ coreSite # NoValue
    /\ coreOut = NoValue
    /\ coreOut' = Returned("ok")
    /\ UNCHANGED <<coreSite, coreCause>>
    /\ UNCHANGED nonCoreVars

\* The library call raises e.
CoreRaises(e) ==
    /\ coreSite # NoValue
    /\ coreOut = NoValue
    /\ e \in LibraryExceptions(coreSite.library)
    /\ coreCause' = e
    /\ coreOut' = Raised(propagate(coreSite.frames, e))
    /\ UNCHANGED coreSite
    /\ UNCHANGED nonCoreVars

(***************************************************************************)
(* core/auth.py: TableauAuthenticator.authenticate and sign_out            *)
(***************************************************************************)

\* How many authenticate() and sign_out() calls one authenticator receives.
MaxSessionCalls == 4

\* What the vendor's sign-in or sign-out request can do.
VendorOutcomes == {"ok", "fails"}
VendorError == Exc("ServerResponseError", <<"401001: Signin Error">>)

\* create_auth_object(): what it raises when the credentials of the
\* configured method are incomplete.
CredentialsRequired ==
    Exc("AuthenticationError", <<"Token name and value required for PAT authentication">>)

\* One call on the authenticator: whether server.is_signed_in() held when
\* it was made, the vendor call it issued ("none" when it issued none), how
\* many times it issued it, and what it returned or raised.
SessionCall(call, signed_in, r) ==
    [call |-> call, signed_in |-> signed_in, vendor |-> r.vendor,
     requests |-> r.requests, out |-> r.out]

\* Mutant: authenticate() signs in a second time when the first sign-in fails.
authenticate_Retry(signed_in, complete, vendor) ==
    IF ~complete
    THEN [vendor |-> "none", requests |-> 0, signed_in |-> signed_in,
          out |-> Raised(Exc("AuthenticationError",
                             <<"Authentication failed: ">> \o CredentialsRequired.msg))]
    ELSE IF vendor = "ok"
    THEN [vendor |-> "ok", requests |-> 1, signed_in |-> TRUE, out |-> Returned("server")]
    ELSE [vendor |-> "fails", requests |-> 2, signed_in |-> signed_in,
          out |-> Raised(Exc("AuthenticationError",
                             <<"Authentication failed: ">> \o VendorError.msg))]

\* authenticate(): create_auth_object() raises when the credentials of the
\* configured method are incomplete; otherwise server.auth.sign_in() is
\* issued, once.  Every exception becomes an AuthenticationError.
authenticate(signed_in, complete, vendor) ==
    IF ~complete
    THEN [vendor |-> "none", requests |-> 0, signed_in |-> signed_in,
          out |-> Raised(Exc("AuthenticationError",
                             <<"Authentication failed: ">> \o CredentialsRequired.msg))]
    ELSE IF vendor = "ok"
    THEN [vendor |-> "ok", requests |-> 1, signed_in |-> TRUE, out |-> Returned("server")]
    ELSE [vendor |-> "fails", requests |-> 1, signed_in |-> signed_in,
          out |-> Raised(Exc("AuthenticationError",
                             <<"Authentication failed: ">> \o VendorError.msg))]

\* Mutant: sign_out without the is_signed_in() test.
sign_out_NoGuard(signed_in, vendor, cleared) ==
    IF vendor = "ok"
    THEN [vendor |-> "ok", requests |-> 1, signed_in |-> FALSE, out |-> Returned("None")]
    ELSE [vendor |-> "fails", requests |-> 1, signed_in |-> signed_in /\ ~cleared,
          out |-> Raised(Exc("AuthenticationError",
                             <<"Sign out failed: ">> \o VendorError.msg))]

\* sign_out(): server.auth.sign_out() is issued, once, only if
\* server.is_signed_in(); when the vendor call raises, the caller gets an
\* AuthenticationError, and the SDK may or may not have dropped its token
\* (cleared).
sign_out(signed_in, vendor, cleared) ==
    IF ~signed_in
    THEN [vendor |-> "none", requests |-> 0, signed_in |-> FALSE, out |-> Returned("None")]
    ELSE IF vendor = "ok"
    THEN [vendor |-> "ok", requests |-> 1, signed_in |-> FALSE, out |-> Returned("None")]
    ELSE [vendor |-> "fails", requests |-> 1, signed_in |-> ~cleared,
          out |-> Raised(Exc("AuthenticationError",
                             <<"Sign out failed: ">> \o VendorError.msg))]

\* TableauAuthenticator.__init__: a new TSC.Server, not signed in.
SessionInit ==
    /\ is_signed_in = FALSE
    /\ authCalls = <<>>

Authenticate(complete, vendor) ==
    /\ Len(authCalls) < MaxSessionCalls
    /\ LET r == authenticate(is_signed_in, complete, vendor)
       IN  /\ is_signed_in' = r.signed_in
           /\ authCalls' = Append(authCalls,
                  SessionCall("authenticate", is_signed_in, r))
    /\ UNCHANGED nonSessionVars

SignOut(vendor, cleared) ==
    /\ Len(authCalls) < MaxSessionCalls
    /\ LET r == sign_out(is_signed_in, vendor, cleared)
       IN  /\ is_signed_in' = r.signed_in
           /\ authCalls' = Append(authCalls,
                  SessionCall("sign_out", is_signed_in, r))
    /\ UNCHANGED nonSessionVars

(***************************************************************************)
(* core/metadata.py: get_metadata_summary                                  *)
(***************************************************************************)

\* datetime.isoformat(): as str(datetime), with "T" as separator.
isoformat(dt) ==
    <<dt.date, "T", dt.time>>
        \o (IF dt.us # "000000" THEN <<".", dt.us>> ELSE <<>>)
        \o (IF dt.tz # "" THEN <<dt.tz>> ELSE <<>>)

\* datetime.min, a naive datetime.
datetime_min == DateTime("0001-01-01", "00:00:00", "000000", "")

\* key=lambda x: x.updated_at or datetime.min
sort_key(x) == IF x.updated_at # NoTime THEN x.updated_at ELSE datetime_min

\* a < b on datetimes raises TypeError when one is naive and the other aware.
comparable(a, b) == (a.tz = "") <=> (b.tz = "")

\* The order of the dates that occur (no two of them are within a UTC
\* offset of each other, so the offset does not change the order).
date_rank(date) ==
    CASE date = "0001-01-01" -> 0
      [] date = "2024-01-01" -> 1
      [] date = "2024-06-30" -> 2
      [] date = "2024-07-01" -> 3
us_rank(us) == IF us = "000000" THEN 0 ELSE 1
less(a, b) ==
    \/ date_rank(a.date) < date_rank(b.date)
    \/ a.date = b.date /\ a.time = b.time /\ us_rank(a.us) < us_rank(b.us)

\* sorted(list, key=sort_key, reverse=True): stable, so that items with
\* equal keys keep their order.
RECURSIVE sorted_reverse(_)
sorted_reverse(list) ==
    IF list = <<>> THEN <<>>
    ELSE LET x == list[Len(list)]
             front == sorted_reverse(SubSeq(list, 1, Len(list) - 1))
             n == Cardinality({i \in 1..Len(front) : ~less(sort_key(front[i]), sort_key(x))})
         IN  SubSeq(front, 1, n) \o <<x>> \o SubSeq(front, n + 1, Len(front))

\* A sort compares enough pairs to connect all its items, so it raises as
\* soon as two keys of the list are not comparable.
sort_raises(list) ==
    \E i, j \in 1..Len(list) : ~comparable(sort_key(list[i]), sort_key(list[j]))

recent_updates(list) ==
    LET top == SubSeq(sorted_reverse(list), 1, IF Len(list) < 5 THEN Len(list) ELSE 5)
    IN  [i \in 1..Len(top) |->
            [name |-> top[i].name,
             updated_at |-> IF top[i].updated_at # NoTime
                            THEN isoformat(top[i].updated_at) ELSE JsonNull]]

get_metadata_summary(metadata) ==
    IF sort_raises(metadata.workbooks) \/ sort_raises(metadata.datasources)
    THEN Raised(Exc("MetadataError",
                    <<"Failed to generate metadata summary: ",
                      "can't compare offset-naive and offset-aware datetimes">>))
    ELSE Returned(
           [server_url |-> metadata.server_url,
            site_name |-> metadata.site_name,
            timestamp |-> isoformat(metadata.timestamp),
            counts |-> [workbooks |-> Len(metadata.workbooks),
                        datasources |-> Len(metadata.datasources),
                        projects |-> Len(metadata.projects),
                        flows |-> Len(metadata.flows)],
            projects |-> [i \in 1..Len(metadata.projects) |->
                             [name |-> metadata.projects[i].name,
                              id |-> metadata.projects[i].id]],
            recent_updates |-> [workbooks |-> recent_updates(metadata.workbooks),
                                datasources |-> recent_updates(metadata.datasources)]])

SummaryInit == summaryOut = NoValue

\* processor.get_metadata_summary(metadata)
GetMetadataSummary ==
    /\ serMeta # NoValue
    /\ summaryOut = NoValue
    /\ summaryOut' = get_metadata_summary(serMeta)
    /\ UNCHANGED <<serMeta, serJson, serLoaded>>
    /\ UNCHANGED nonSummaryVars

(***************************************************************************)
(* The two CSV writers: cli/commands/export.py _export_csv and             *)
(* core/storage.py LocalStorage._save_as_csv                               *)
(***************************************************************************)

\* The four lists of a ServerMetadata.
EntityTypes == {"workbooks", "datasources", "projects", "flows"}
csv_name(type) == type \o ".csv"

\* _export_csv: the header rows it writes.
export_header(type) ==
    CASE type = "workbooks" ->
           <<"ID", "Name", "Description", "Project", "Owner", "Created", "Updated",
             "Size", "URL", "Show Tabs", "Tags">>
      [] type = "datasources" ->
           <<"ID", "Name", "Description", "Project", "Owner", "Created", "Updated",
             "Size", "URL", "Tags">>
      [] type = "projects" ->
           <<"ID", "Name", "Description", "Parent ID", "Permissions", "Created", "Updated">>

\* _get_workbook_fields, _get_datasource_fields, _get_project_fields
storage_fields(type) ==
    CASE type = "workbooks" ->
           <<"id", "name", "description", "project_id", "project_name", "owner_id",
             "owner_name", "created_at", "updated_at", "size", "webpage_url",
             "show_tabs", "content_url", "tags">>
      [] type = "datasources" ->
           <<"id", "name", "description", "project_id", "project_name", "owner_id",
             "owner_name", "created_at", "updated_at", "size", "webpage_url",
             "content_url", "tags">>
      [] type = "projects" ->
           <<"id", "name", "description", "parent_id", "content_permissions",
             "created_at", "updated_at", "workbook_count", "datasource_count",
             "flow_count">>

\* One cell of a data row, as the sequence of the parts of its text: the
\* id and the name, x.isoformat() if x else "" for the two timestamps; an
\* attribute the records here do not carry is written as its column name.
csv_cell(x, column) ==
    CASE column \in {"ID", "id"} -> <<x.id>>
      [] column \in {"Name", "name"} -> <<x.name>>
      [] column \in {"Created", "created_at"} ->
           IF x.created_at # NoTime THEN isoformat(x.created_at) ELSE <<>>
      [] column \in {"Updated", "updated_at"} ->
           IF x.updated_at # NoTime THEN isoformat(x.updated_at) ELSE <<>>
      [] OTHER -> <<"<", column, ">">>

csv_row(x, columns) == [k \in 1..Len(columns) |-> csv_cell(x, columns[k])]

\* writer.writerow(header), then one writer.writerow per item of the list.
csv_rows(list, columns) ==
    <<columns>> \o [i \in 1..Len(list) |-> csv_row(list[i], columns)]

\* _export_csv(metadata, output_dir): a file is opened only for a list that
\* is not empty, and only for workbooks, datasources and projects.
export_csv(metadata) ==
    LET written == {type \in {"workbooks", "datasources", "projects"} :
                        metadata[type] # <<>>}
    IN  [file \in {csv_name(type) : type \in written} |->
            LET type == CHOOSE t \in written : csv_name(t) = file
            IN  csv_rows(metadata[type], export_header(type))]

\* _save_as_csv(metadata, base_path): the three files are always opened;
\* the header and the rows are written only if the list is not empty.
save_as_csv(metadata) ==
    LET written == {"workbooks", "datasources", "projects"}
    IN  [file \in {csv_name(type) : type \in written} |->
            LET type == CHOOSE t \in written : csv_name(t) = file
            IN  IF metadata[type] # <<>>
                THEN csv_rows(metadata[type], storage_fields(type))
                ELSE <<>>]

CsvInit == csvOut = NoValue

\* export metadata --format csv
ExportCsv ==
    /\ serMeta # NoValue
    /\ csvOut = NoValue
    /\ csvOut' = [writer |-> "_export_csv", files |-> export_csv(serMeta)]
    /\ UNCHANGED <<serMeta, serJson, serLoaded>>
    /\ UNCHANGED nonCsvVars

\* LocalStorage.save_metadata(metadata, path, "csv")
SaveAsCsv ==
    /\ serMeta # NoValue
    /\ csvOut = NoValue
    /\ csvOut' = [writer |-> "_save_as_csv", files |-> save_as_csv(serMeta)]
    /\ UNCHANGED <<serMeta, serJson, serLoaded>>
    /\ UNCHANGED nonCsvVars

(***************************************************************************)
(* core/client.py: search_content                                          *)
(***************************************************************************)

\* The four blocks of search_content, in the order of the code.
SearchTypes == <<"workbooks", "datasources", "projects", "flows">>
ContentTypeArgs == {"all", "workbooks", "datasources", "projects", "flows", "users"}
SearchTerms == {"sales"}

\* What the retry-wrapped list call of one block can do.
SearchOutcomes ==
    {Returned(<<>>), Returned(<<"item">>),
     Raised(Exc("ServerResponseError", <<"403 Forbidden">>))}

\* list(TSC.Pager(endpoint, req_option)) with the filter Name Contains term.
SearchCall(type, term) ==
    [endpoint |-> type, field |-> "Name", operator |-> "Contains", value |-> term]

\* if content_type in ["all", <type>]
in_block(content_type, type) == content_type \in {"all", type}

\* The blocks from k on: each block that applies issues its call and
\* stores what it returned; the first call that raises ends the function.
RECURSIVE search_blocks(_, _, _, _, _)
search_blocks(k, term, content_type, outcome, acc) ==
    IF k > Len(SearchTypes) THEN [calls |-> acc.calls, out |-> Returned(acc.results)]
    ELSE LET type == SearchTypes[k]
         IN  IF ~in_block(content_type, type)
             THEN search_blocks(k + 1, term, content_type, outcome, acc)
             ELSE LET issued == Append(acc.calls, SearchCall(type, term))
                  IN  IF outcome[type].status = "raise"
                      THEN [calls |-> issued,
                            out |-> Raised(Exc("TableauAPIError",
                                        <<"Failed to search content: ">>
                                            \o outcome[type].exc.msg))]
                      ELSE search_blocks(k + 1, term, content_type, outcome,
                               [calls |-> issued,
                                results |-> [acc.results EXCEPT
                                                ![type] = outcome[type].value]])

\* Mutant: every block runs whatever content_type is.
search_content_EveryBlock(connected, term, content_type, outcome) ==
    IF ~connected
    THEN [calls |-> <<>>,
          out |-> Raised(Exc("ConnectionError", <<"Not connected to server">>))]
    ELSE search_blocks(1, term, "all", outcome,
             [calls |-> <<>>,
              results |-> [type \in {"workbooks", "datasources", "projects", "flows"}
                              |-> <<>>]])

search_content(connected, term, content_type, outcome) ==
    IF ~connected
    THEN [calls |-> <<>>,
          out |-> Raised(Exc("ConnectionError", <<"Not connected to server">>))]
    ELSE search_blocks(1, term, content_type, outcome,
             [calls |-> <<>>,
              results |-> [type \in {"workbooks", "datasources", "projects", "flows"}
                              |-> <<>>]])

SearchInit == searchOut = NoValue

\* client.search_content(search_term, content_type)
SearchContent(connected, term, content_type, outcome) ==
    /\ searchOut = NoValue
    /\ LET r == search_content(connected, term, content_type, outcome)
       IN  searchOut' = [connected |-> connected, search_term |-> term,
                         content_type |-> content_type, outcome |-> outcome,
                         calls |-> r.calls, out |-> r.out]
    /\ UNCHANGED nonSearchVars

(***************************************************************************)
(* core/client.py: the connection() context manager                        *)
(***************************************************************************)

\* What the body of a `with client.connection()` block can raise: an error
\* of a data operation, an error of the processor, any other exception,
\* and exit(1), whose SystemExit is not an Exception.
WithBodyExceptions ==
    {Exc("TableauAPIError", <<"Failed to get workbooks: ", "403 Forbidden">>),
     Exc("MetadataError", <<"Failed to process workbook metadata: ", "no attribute">>),
     Exc("KeyError", <<"'name'">>),
     Exc("SystemExit", <<"1">>)}

\* except Exception catches everything but the BaseException-only classes.
is_exception(kind) == kind \notin {"SystemExit", "KeyboardInterrupt", "GeneratorExit"}

\* Mutant: the sign-out is the last statement of the try block, not a
\* finally clause, so it runs only when nothing was raised.
connection_leave_NoFinally(srv, signed_in, raised, vendor, cleared) ==
    LET reraised ==
            IF raised = NoValue THEN NoValue
            ELSE IF is_exception(raised.kind)
            THEN Exc("ConnectionError",
                     <<"Failed to connect to Tableau Server: ">> \o raised.msg)
            ELSE raised
        sign_outs ==
            IF srv # None /\ raised = NoValue
            THEN <<sign_out(signed_in, vendor, cleared)>> ELSE <<>>
    IN  [sign_outs |-> sign_outs,
         out |-> IF sign_outs # <<>> /\ sign_outs[1].out.status = "raise"
                 THEN sign_outs[1].out
                 ELSE IF reraised = NoValue THEN Returned("None")
                 ELSE Raised(reraised)]

\* How the generator of connection() is left, with `raised` the exception
\* raised inside its try block (by authenticate(), or by the body of the
\* with-block, which is thrown in at the yield), NoValue when there is
\* none: `except Exception` re-raises it as ConnectionError, then the
\* finally clause calls sign_out() if self.server is set; an exception of
\* sign_out() replaces the one in flight.
connection_leave(srv, signed_in, raised, vendor, cleared) ==
    LET reraised ==
            IF raised = NoValue THEN NoValue
            ELSE IF is_exception(raised.kind)
            THEN Exc("ConnectionError",
                     <<"Failed to connect to Tableau Server: ">> \o raised.msg)
            ELSE raised
        sign_outs ==
            IF srv # None THEN <<sign_out(signed_in, vendor, cleared)>> ELSE <<>>
    IN  [sign_outs |-> sign_outs,
         out |-> IF sign_outs # <<>> /\ sign_outs[1].out.status = "raise"
                 THEN sign_outs[1].out
                 ELSE IF reraised = NoValue THEN Returned("None")
                 ELSE Raised(reraised)]

\* One with-block: whether the sign-in succeeded and the body was entered,
\* what the body raised (NoValue when it raised nothing), the sign_out()
\* calls made when the block was left, and what the caller got.
WithBlock(entered, body, sign_outs, out) ==
    [entered |-> entered, body |-> body, sign_outs |-> sign_outs, out |-> out]

WithInit == withBlocks = <<>>

\* with client.connection(): authenticate() is called; when it returns,
\* self.server is set and the body starts; when it raises, the generator is
\* left at once.
WithEnter(complete, vendor, vendor2, cleared) ==
    /\ conn = "closed"
    /\ Len(authCalls) + 2 <= MaxSessionCalls
    /\ LET a == authenticate(is_signed_in, complete, vendor)
           entry == SessionCall("authenticate", is_signed_in, a)
       IN  IF a.out.status = "return"
           THEN /\ server' = "server"
                /\ conn' = "open"
                /\ is_signed_in' = a.signed_in
                /\ authCalls' = Append(authCalls, entry)
                /\ UNCHANGED <<withBlocks, callOut>>
           ELSE LET r == connection_leave(server, a.signed_in, a.out.exc, vendor2, cleared)
                IN  /\ UNCHANGED <<server, conn>>
                    /\ is_signed_in' =
                          IF r.sign_outs # <<>> THEN r.sign_outs[1].signed_in
                          ELSE a.signed_in
                    /\ authCalls' =
                          authCalls \o <<entry>> \o
                          [k \in 1..Len(r.sign_outs) |->
                              SessionCall("sign_out", a.signed_in, r.sign_outs[k])]
                    /\ withBlocks' = Append(withBlocks,
                          WithBlock(FALSE, NoValue, Len(r.sign_outs), r.out))
                    /\ callOut' = r.out
    /\ UNCHANGED <<pc, op, attempt, log, sleeps, retryOut>>
    /\ UNCHANGED nonWithVars

\* The body of the with-block ends, normally (raised = NoValue) or with an
\* exception, and the generator is left.
WithLeave(raised, vendor, cleared) ==
    /\ conn = "open"
    /\ LET r == connection_leave(server, is_signed_in, raised, vendor, cleared)
       IN  /\ conn' = "closed"
           /\ is_signed_in' =
                 IF r.sign_outs # <<>> THEN r.sign_outs[1].signed_in ELSE is_signed_in
           /\ authCalls' = authCalls \o
                 [k \in 1..Len(r.sign_outs) |->
                     SessionCall("sign_out", is_signed_in, r.sign_outs[k])]
           /\ withBlocks' = Append(withBlocks,
                 WithBlock(TRUE, raised, Len(r.sign_outs), r.out))
           /\ callOut' = r.out
    /\ UNCHANGED <<server, pc, op, attempt, log, sleeps, retryOut>>
    /\ UNCHANGED nonWithVars

(***************************************************************************)
(* core/client.py: TableauMetadataClient.query                             *)
(***************************************************************************)

\* How many queries one TableauMetadataClient receives.
MaxQueries == 4

\* self.session: None, or a requests.Session with the X-Tableau-Auth header
\* it carries ("" when the header was never set).
HttpSession(auth_token) == [X_Tableau_Auth |-> auth_token]

\* The two fixed queries: get_workbook_lineage and get_datasource_lineage.
LineageQueries == {"GetWorkbookLineage", "GetDatasourceLineage"}

\* query(): `if not self.session: self._authenticate()`, then the POST
\* inside try/except.  _authenticate() assigns self.session before it calls
\* authenticate(), and sets the header only after authenticate() returned;
\* its exception leaves query() before anything is sent.
metadata_query(session, query, auth, post) ==
    LET authenticates == session = NoValue
        failed == authenticates /\ auth = "fails"
        current == IF ~authenticates THEN session
                   ELSE IF failed THEN HttpSession("")
                   ELSE HttpSession("auth_token")
    IN  [session |-> current,
         sign_ins |-> IF authenticates THEN 1 ELSE 0,
         requests |-> IF failed THEN <<>>
                      ELSE <<[headers |-> current, query |-> query]>>,
         out |-> IF failed
                 THEN Raised(Exc("AuthenticationError",
                                 <<"Authentication failed: ">> \o VendorError.msg))
                 ELSE IF post = "ok" THEN Returned("json")
                 ELSE Raised(Exc("TableauAPIError",
                                 <<"GraphQL query failed: ", "401 Client Error">>))]

\* TableauMetadataClient.__init__
GraphqlInit ==
    /\ gqlSession = NoValue
    /\ gqlLog = <<>>

\* metadata_client.query(query, variables)
Query(query, auth, post) ==
    /\ Len(gqlLog) < MaxQueries
    /\ LET r == metadata_query(gqlSession, query, auth, post)
       IN  /\ gqlSession' = r.session
           /\ gqlLog' = Append(gqlLog,
                 [sign_ins |-> r.sign_ins, requests |-> r.requests, out |-> r.out])
    /\ UNCHANGED nonGraphqlVars

(***************************************************************************)
(* Specifications                                                          *)
(***************************************************************************)

AuthNext == CreateAuthConfigFromEnv

InitAuth == AuthInit /\ ClientInit /\ FilterIdle /\ SerialIdle /\ StoreInit /\ RunsIdle /\ CollectIdle /\ CliInit /\ CoreInit /\ SessionInit /\ SummaryInit /\ CsvInit /\ SearchInit /\ WithInit /\ GraphqlInit
SpecAuth == InitAuth /\ [][AuthNext]_vars

ClientNext ==
    \/ ConnectionEnter
    \/ ConnectionExit
    \/ \E o \in ListOps : CallListOp(o)
    \/ \E v \in SdkResults : AttemptReturns(v)
    \/ \E e \in SdkErrors : AttemptRaises(e)
    \/ ListOpCompletes

InitClient == AuthIdle /\ ClientInit /\ FilterIdle /\ SerialIdle /\ StoreInit /\ RunsIdle /\ CollectIdle /\ CliInit /\ CoreInit /\ SessionInit /\ SummaryInit /\ CsvInit /\ SearchInit /\ WithInit /\ GraphqlInit
SpecClient == InitClient /\ [][ClientNext]_vars

FilterNext ==
    \/ \E filters \in FilterDicts : FilterMetadata(filters)
    \/ FilterMetadataCombined

InitFilter == AuthIdle /\ ClientInit /\ FilterInit /\ SerialIdle /\ StoreInit /\ RunsIdle /\ CollectIdle /\ CliInit /\ CoreInit /\ SessionInit /\ SummaryInit /\ CsvInit /\ SearchInit /\ WithInit /\ GraphqlInit
SpecFilter == InitFilter /\ [][FilterNext]_vars

SerialNext ==
    \/ MetadataToJson
    \/ DictToMetadata

InitSerial == AuthIdle /\ ClientInit /\ FilterIdle /\ SerialInit /\ StoreInit /\ RunsIdle /\ CollectIdle /\ CliInit /\ CoreInit /\ SessionInit /\ SummaryInit /\ CsvInit /\ SearchInit /\ WithInit /\ GraphqlInit
SpecSerial == InitSerial /\ [][SerialNext]_vars

StoreNext ==
    \/ \E m \in StoreMetadata, path \in StorePaths, format \in StoreFormats :
          LocalSaveMetadata(m, path, format)
    \/ \E path \in StorePaths : LocalLoadMetadata(path)
    \/ \E m \in StoreMetadata, path \in StorePaths, format \in StoreFormats, sdk_ok \in BOOLEAN :
          S3SaveMetadata(m, path, format, sdk_ok)
    \/ \E path \in StorePaths, sdk_ok \in BOOLEAN : S3LoadMetadata(path, sdk_ok)

InitStore == AuthIdle /\ ClientInit /\ FilterIdle /\ SerialIdle /\ StoreInit /\ RunsIdle /\ CollectIdle /\ CliInit /\ CoreInit /\ SessionInit /\ SummaryInit /\ CsvInit /\ SearchInit /\ WithInit /\ GraphqlInit
SpecStore == InitStore /\ [][StoreNext]_vars

\* One LocalStorage: save, load, list and delete in any order.
LocalNext ==
    \/ \E m \in StoreMetadata, path \in ArtifactPaths, format \in StoreFormats :
          LocalSaveMetadata(m, path, format)
    \/ \E path \in ArtifactPaths : LocalLoadMetadata(path)
    \/ \E prefix \in ListPrefixes : LocalListMetadataFiles(prefix)
    \/ \E path \in ArtifactPaths : LocalDeleteMetadata(path)

SpecLocal == InitStore /\ [][LocalNext]_vars

\* One S3Storage: save, load, list and delete in any order.
S3Next ==
    \/ \E m \in StoreMetadata, path \in ArtifactPaths, format \in StoreFormats, sdk_ok \in BOOLEAN :
          S3SaveMetadata(m, path, format, sdk_ok)
    \/ \E path \in ArtifactPaths, sdk_ok \in BOOLEAN : S3LoadMetadata(path, sdk_ok)
    \/ \E prefix \in ListPrefixes, sdk_ok \in BOOLEAN : S3ListMetadataFiles(prefix, sdk_ok)
    \/ \E path \in ArtifactPaths, sdk_ok \in BOOLEAN : S3DeleteMetadata(path, sdk_ok)

SpecS3 == InitStore /\ [][S3Next]_vars

\* The same sequence of calls on both backends, both empty at the start.
BackendsNext ==
    \/ \E m \in StoreMetadata, path \in StorePaths, format \in StoreFormats :
          BothSaveMetadata(m, path, format)
    \/ \E path \in StorePaths : BothLoadMetadata(path)
    \/ \E prefix \in ListPrefixes : BothListMetadataFiles(prefix)
    \/ \E path \in StorePaths : BothDeleteMetadata(path)

SpecBackends == InitStore /\ [][BackendsNext]_vars

\* One StorageManager.
ManagerNext ==
    \/ \E m \in StoreMetadata, filename \in ManagerFilenames, backends \in BackendLists,
          format \in StoreFormats, sdk_ok \in BOOLEAN :
          ManagerSaveMetadata(m, filename, backends, format, sdk_ok)
    \/ \E filename \in ManagerFilenames, backend \in {"local", "s3", "ftp"}, sdk_ok \in BOOLEAN :
          ManagerLoadMetadata(filename, backend, sdk_ok)

InitManager == AuthIdle /\ ClientInit /\ FilterIdle /\ SerialIdle /\ ManagerInit /\ RunsIdle /\ CollectIdle /\ CliInit /\ CoreInit /\ SessionInit /\ SummaryInit /\ CsvInit /\ SearchInit /\ WithInit /\ GraphqlInit
SpecManager == InitManager /\ [][ManagerNext]_vars

\* Successive collect runs that save to the same bucket and prefix.
RunsNext ==
    \E site_id \in SiteIds, format \in CollectFormats, backends \in CollectBackends,
       sdk_ok \in BOOLEAN, elapsed \in 1..2 :
        CollectRun(site_id, format, backends, sdk_ok, elapsed)

InitRuns == AuthIdle /\ ClientInit /\ FilterIdle /\ SerialIdle /\ RunsInit /\ CollectIdle /\ CliInit /\ CoreInit /\ SessionInit /\ SummaryInit /\ CsvInit /\ SearchInit /\ WithInit /\ GraphqlInit
SpecRuns == InitRuns /\ [][RunsNext]_vars

\* One collect run.
CollectNext ==
    \/ \E ok \in BOOLEAN : CollectConnect(ok)
    \/ \E ok \in BOOLEAN, wbs \in WorkbookLists, dss \in DatasourceLists :
          CollectLists(ok, wbs, dss)
    \/ \E views_out \in FetchOutcomes, connections_out \in FetchOutcomes,
          lineage_out \in LineageOutcomes :
          CollectWorkbook(views_out, connections_out, lineage_out)
    \/ \E connections_out \in FetchOutcomes, lineage_out \in LineageOutcomes :
          CollectDatasource(connections_out, lineage_out)
    \/ CollectFinish

InitCollect == AuthIdle /\ ClientInit /\ FilterIdle /\ SerialIdle /\ StoreInit /\ RunsIdle /\ CollectInit /\ CliInit /\ CoreInit /\ SessionInit /\ SummaryInit /\ CsvInit /\ SearchInit /\ WithInit /\ GraphqlInit
SpecCollect == InitCollect /\ [][CollectNext]_vars

\* One CLI invocation.
CliNext ==
    \/ \E cmd \in Commands : CliInvoke(cmd)
    \/ CliBodyReturns
    \/ \E kind \in BodyErrors : CliBodyRaises(kind)
    \/ \E check \in BodyChecks(command) : CliCheckFails(check)

InitCli == AuthIdle /\ ClientInit /\ FilterIdle /\ SerialIdle /\ StoreInit /\ RunsIdle /\ CollectIdle /\ CliInit /\ CoreInit /\ SessionInit /\ SummaryInit /\ CsvInit /\ SearchInit /\ WithInit /\ GraphqlInit
SpecCli == InitCli /\ [][CliNext]_vars

CoreNext ==
    \/ \E site \in CoreSites : CoreCall(site)
    \/ CoreReturns
    \/ \E library \in {"tsc", "requests", "python", "os", "boto"} :
          \E e \in LibraryExceptions(library) : CoreRaises(e)

InitCore == AuthIdle /\ ClientInit /\ FilterIdle /\ SerialIdle /\ StoreInit /\ RunsIdle /\ CollectIdle /\ CliInit /\ CoreInit /\ SessionInit /\ SummaryInit /\ CsvInit /\ SearchInit /\ WithInit /\ GraphqlInit
SpecCore == InitCore /\ [][CoreNext]_vars

SessionNext ==
    \/ \E complete \in BOOLEAN, vendor \in VendorOutcomes : Authenticate(complete, vendor)
    \/ \E vendor \in VendorOutcomes, cleared \in BOOLEAN : SignOut(vendor, cleared)

InitSession == AuthIdle /\ ClientInit /\ FilterIdle /\ SerialIdle /\ StoreInit /\ RunsIdle /\ CollectIdle /\ CliInit /\ CoreInit /\ SessionInit /\ SummaryInit /\ CsvInit /\ SearchInit /\ WithInit /\ GraphqlInit
SpecSession == InitSession /\ [][SessionNext]_vars

SummaryNext == GetMetadataSummary

InitSummary == AuthIdle /\ ClientInit /\ FilterIdle /\ SerialInit /\ StoreInit /\ RunsIdle /\ CollectIdle /\ CliInit /\ CoreInit /\ SessionInit /\ SummaryInit /\ CsvInit /\ SearchInit /\ WithInit /\ GraphqlInit
SpecSummary == InitSummary /\ [][SummaryNext]_vars

CsvNext ==
    \/ ExportCsv
    \/ SaveAsCsv

InitCsv == AuthIdle /\ ClientInit /\ FilterIdle /\ SerialInit /\ StoreInit /\ RunsIdle /\ CollectIdle /\ CliInit /\ CoreInit /\ SessionInit /\ SummaryInit /\ CsvInit /\ SearchInit /\ WithInit /\ GraphqlInit
SpecCsv == InitCsv /\ [][CsvNext]_vars

SearchNext ==
    \E connected \in BOOLEAN, term \in SearchTerms, content_type \in ContentTypeArgs :
        \E outcome \in [{"workbooks", "datasources", "projects", "flows"} -> SearchOutcomes] :
            SearchContent(connected, term, content_type, outcome)

InitSearch == AuthIdle /\ ClientInit /\ FilterIdle /\ SerialIdle /\ StoreInit /\ RunsIdle /\ CollectIdle /\ CliInit /\ CoreInit /\ SessionInit /\ SummaryInit /\ CsvInit /\ SearchInit /\ WithInit /\ GraphqlInit
SpecSearch == InitSearch /\ [][SearchNext]_vars

WithNext ==
    \/ \E complete \in BOOLEAN, vendor \in VendorOutcomes, vendor2 \in VendorOutcomes,
          cleared \in BOOLEAN : WithEnter(complete, vendor, vendor2, cleared)
    \/ \E raised \in WithBodyExceptions \cup {NoValue}, vendor \in VendorOutcomes,
          cleared \in BOOLEAN : WithLeave(raised, vendor, cleared)

InitWith == AuthIdle /\ ClientInit /\ FilterIdle /\ SerialIdle /\ StoreInit /\ RunsIdle /\ CollectIdle /\ CliInit /\ CoreInit /\ SessionInit /\ SummaryInit /\ CsvInit /\ SearchInit /\ WithInit /\ GraphqlInit
SpecWith == InitWith /\ [][WithNext]_vars

GraphqlNext ==
    \E query \in LineageQueries, auth \in VendorOutcomes, post \in VendorOutcomes :
        Query(query, auth, post)

InitGraphql == AuthIdle /\ ClientInit /\ FilterIdle /\ SerialIdle /\ StoreInit /\ RunsIdle /\ CollectIdle /\ CliInit /\ CoreInit /\ SessionInit /\ SummaryInit /\ CsvInit /\ SearchInit /\ WithInit /\ GraphqlInit
SpecGraphql == InitGraphql /\ [][GraphqlNext]_vars

(***************************************************************************)
(* Properties of the authentication config resolver                        *)
(***************************************************************************)

HasUrl == Truthy(env["TABLEAU_SERVER_URL"])
PatComplete == Truthy(env["TABLEAU_TOKEN_NAME"]) /\ Truthy(env["TABLEAU_TOKEN_VALUE"])
UserComplete == Truthy(env["TABLEAU_USERNAME"]) /\ Truthy(env["TABLEAU_PASSWORD"])
JwtComplete == Truthy(env["TABLEAU_JWT_TOKEN"])

ReturnsMethod(r, m) == r.status = "return" /\ r.value.auth_method = m

\* C1: with TABLEAU_SERVER_URL set, every call returns PAT when the token
\* pair is complete, else username/password when that pair is complete,
\* else JWT when the JWT token is set; a half-set pair is skipped, and all
\* calls on the same environment return the same result.
C1_Precedence ==
    \A i \in 1..Len(authLog) :
        /\ HasUrl =>
              /\ PatComplete => ReturnsMethod(authLog[i], PERSONAL_ACCESS_TOKEN)
              /\ ~PatComplete /\ UserComplete =>
                    ReturnsMethod(authLog[i], USERNAME_PASSWORD)
              /\ ~PatComplete /\ ~UserComplete /\ JwtComplete =>
                    ReturnsMethod(authLog[i], JWT)
        /\ authLog[i] = authLog[1]

\* A half-set token pair is passed over for a complete username/password
\* pair although a JWT token is set too, and the call is repeated.
C1_Witness ==
    /\ Len(authLog) = MaxAuthCalls
    /\ HasUrl
    /\ Truthy(env["TABLEAU_TOKEN_NAME"]) /\ ~Truthy(env["TABLEAU_TOKEN_VALUE"])
    /\ UserComplete /\ JwtComplete
    /\ ReturnsMethod(authLog[1], USERNAME_PASSWORD)

RaisesKind(r, k) == r.status = "raise" /\ r.exc.kind = k

\* C2: when no credential set is complete, and also when the server URL is
\* missing, every call raises ConfigurationError and returns no AuthConfig.
C2_ConfigurationError ==
    \A i \in 1..Len(authLog) :
        (~HasUrl \/ (~PatComplete /\ ~UserComplete /\ ~JwtComplete))
            => RaisesKind(authLog[i], "ConfigurationError")

\* The URL is set, each pair is half set and the JWT token is empty.
C2_Witness ==
    /\ Len(authLog) > 0
    /\ HasUrl
    /\ Truthy(env["TABLEAU_TOKEN_VALUE"]) /\ Truthy(env["TABLEAU_USERNAME"])
    /\ env["TABLEAU_JWT_TOKEN"] = ""
    /\ ~PatComplete /\ ~UserComplete
    /\ RaisesKind(authLog[1], "ConfigurationError")

(***************************************************************************)
(* Properties of the retry loop and the list operations                    *)
(***************************************************************************)

AllFailed ==
    /\ Len(log) = retry_count
    /\ \A i \in 1..Len(log) : ~log[i].ok

FailedTwiceThenOk ==
    /\ Len(log) = 3
    /\ ~log[1].ok /\ ~log[2].ok /\ log[3].ok

\* C3: _retry_operation returns the third attempt's result when the first
\* two attempts failed and the third succeeded, and raises an exception of
\* the operation's own exception type when every attempt failed.
C3_RetryOutcome ==
    pc \in {"wrap", "done"} =>
        /\ FailedTwiceThenOk => retryOut = Returned(log[3].value)
        /\ AllFailed =>
              /\ retryOut.status = "raise"
              /\ retryOut.exc.kind = log[retry_count].exc.kind

\* Two failures of different kinds, then a success.
C3_Witness ==
    /\ pc = "done"
    /\ FailedTwiceThenOk
    /\ log[1].exc.kind # log[2].exc.kind
    /\ retryOut = Returned(log[3].value)

\* C4 as stated: when every attempt failed, the caller of the list
\* operation gets the final attempt's exception itself.
C4_CallerGetsFinalException ==
    (pc = "done" /\ AllFailed) => callOut = Raised(log[retry_count].exc)

\* C4, amended: when every attempt failed, the caller of the list operation
\* gets a TableauAPIError whose message is the operation's "Failed to get
\* ...: " prefix followed by the message of the final attempt's exception.
C4_CallerGetsWrappedFinalException ==
    (pc = "done" /\ AllFailed) =>
        callOut = Raised(Exc("TableauAPIError",
                             <<FailurePrefix(op)>> \o log[retry_count].exc.msg))

\* All attempts of get_flows failed, the last one differently from the first.
C4_Witness ==
    /\ pc = "done"
    /\ AllFailed
    /\ op = "get_flows"
    /\ log[1].exc # log[retry_count].exc
    /\ callOut.status = "raise"

\* C5: whatever the errors are, the operation is invoked at most 3 times,
\* no invocation follows a success, the wait after the k-th failed attempt
\* is retry_delay * 2^(k-1) (1, then 2), and no wait follows the attempt
\* that ends the loop.
C5_RetrySchedule ==
    /\ Len(log) <= 3
    /\ \A i \in 1..(Len(log) - 1) : ~log[i].ok
    /\ \A k \in 1..Len(sleeps) : sleeps[k] = retry_delay * (2 ^ (k - 1))
    /\ sleeps \in {<<>>, <<1>>, <<1, 2>>}
    /\ pc = "try" => Len(sleeps) = Len(log)
    /\ (pc \in {"wrap", "done"} /\ Len(log) > 0) => Len(sleeps) = Len(log) - 1

\* Three failed attempts of mixed kinds: two waits, 1 then 2, none after
\* the last failure.
C5_Witness ==
    /\ pc = "done"
    /\ AllFailed
    /\ log[1].exc.kind = "ServerResponseError"
    /\ log[2].exc.kind = "Timeout"
    /\ sleeps = <<1, 2>>

(***************************************************************************)
(* Properties of filter_metadata                                           *)
(***************************************************************************)

\* An entity satisfies every predicate whose key is in the filter dict.
KeepContent(x, filters) ==
    /\ Has(filters, "project_names") => InProject(x, filters)
    /\ Has(filters, "owner_names") => OwnedBy(x, filters)
    /\ Has(filters, "tags") => Tagged(x, filters)
    /\ Has(filters, "updated_since") => UpdatedSince(x, filters)

\* The same for a project, which has a name and an update time but neither
\* an owner nor tags.
KeepProject(p, filters) ==
    /\ Has(filters, "project_names") => ProjectNamed(p, filters)
    /\ Has(filters, "updated_since") => UpdatedSince(p, filters)

Lists(m) == <<m.workbooks, m.datasources, m.projects, m.flows>>
ServerFields(m) ==
    <<m.server_url, m.version, m.rest_api_version, m.site_id, m.site_name,
      m.timestamp>>

\* C6: in each of the four lists of the result, an entity of the input is
\* kept exactly when it satisfies every predicate present in the filter
\* dict, in the input's order.
C6_ConjunctionOnAllFourLists ==
    \A n \in 1..Len(filterCalls) :
        LET c == filterCalls[n]
            r == metas[c.res]
        IN  /\ r.workbooks = SelectSeq(c.input.workbooks, LAMBDA x : KeepContent(x, c.filters))
            /\ r.datasources = SelectSeq(c.input.datasources, LAMBDA x : KeepContent(x, c.filters))
            /\ r.flows = SelectSeq(c.input.flows, LAMBDA x : KeepContent(x, c.filters))
            /\ r.projects = SelectSeq(c.input.projects, LAMBDA x : KeepProject(x, c.filters))

\* What the code does: the conjunction on workbooks, datasources and flows,
\* and the project-name predicate alone on projects.
FilterKeepsPerList ==
    \A n \in 1..Len(filterCalls) :
        LET c == filterCalls[n]
            r == metas[c.res]
        IN  /\ r.workbooks = SelectSeq(c.input.workbooks, LAMBDA x : KeepContent(x, c.filters))
            /\ r.datasources = SelectSeq(c.input.datasources, LAMBDA x : KeepContent(x, c.filters))
            /\ r.flows = SelectSeq(c.input.flows, LAMBDA x : KeepContent(x, c.filters))
            /\ r.projects = SelectSeq(c.input.projects,
                   LAMBDA x : Has(c.filters, "project_names") => ProjectNamed(x, c.filters))

C8_InputUnchanged ==
    \A n \in 1..Len(filterCalls) :
        LET c == filterCalls[n]
        IN  /\ metas[c.src] = c.input
            /\ c.res \in 1..Len(metas)
            /\ c.res # c.src
            /\ ServerFields(metas[c.res]) = ServerFields(c.input)

\* A call that dropped a workbook and a project from its result.
C8_Witness ==
    \E n \in 1..Len(filterCalls) :
        LET c == filterCalls[n]
        IN  /\ Len(metas[c.res].workbooks) < Len(c.input.workbooks)
            /\ Len(metas[c.res].projects) < Len(c.input.projects)
            /\ metas[c.src] = c.input

(***************************************************************************)
(* Properties of serialization and loading                                 *)
(***************************************************************************)

\* C9: the workbook list rebuilt from the JSON text has the length and the
\* order of the original, and each workbook has the original's id, name,
\* created_at and updated_at, absent timestamps included.
C9_WorkbooksRoundTrip ==
    serLoaded # NoValue =>
        /\ Len(serLoaded.workbooks) = Len(serMeta.workbooks)
        /\ \A i \in 1..Len(serMeta.workbooks) :
              /\ serLoaded.workbooks[i].id = serMeta.workbooks[i].id
              /\ serLoaded.workbooks[i].name = serMeta.workbooks[i].name
              /\ serLoaded.workbooks[i].created_at = serMeta.workbooks[i].created_at
              /\ serLoaded.workbooks[i].updated_at = serMeta.workbooks[i].updated_at

\* Two workbooks were rebuilt: the first has no timestamps, the second a
\* naive one and an aware one with microseconds.
C9_Witness ==
    /\ serLoaded # NoValue
    /\ Len(serLoaded.workbooks) = 2
    /\ serMeta.workbooks[1].created_at = NoTime
    /\ serMeta.workbooks[2].created_at # NoTime
    /\ serMeta.workbooks[2].created_at.tz = ""
    /\ serMeta.workbooks[2].updated_at # NoTime
    /\ serMeta.workbooks[2].updated_at.tz = "+00:00"
    /\ serMeta.workbooks[2].updated_at.us = "250000"
    /\ serLoaded.workbooks[2] = serMeta.workbooks[2]

\* Whether what a load found can be read at all: something is there, the
\* SDK call went through, and a local file has the encoding its path
\* announces.
Readable(call) ==
    /\ call.read # Absent
    /\ call.sdk_ok
    /\ call.backend = "local" =>
          /\ IsFile(call.read)
          /\ endswith_gz(call.path) <=> call.read.kind = "gzip"

\* C10: a load, local or S3, that returns a ServerMetadata returns it with
\* empty datasources, projects and flows, whatever the stored document
\* holds in these lists, and a readable document is loaded without error.
C10_LoadDropsThreeLists ==
    (storeOut # NoValue /\ storeOut.op = "load") =>
        /\ storeOut.out.status = "return" =>
              /\ storeOut.out.value.datasources = <<>>
              /\ storeOut.out.value.projects = <<>>
              /\ storeOut.out.value.flows = <<>>
        /\ Readable(storeOut) => storeOut.out.status = "return"

\* A gzip object with one datasource, one project and one flow was loaded
\* from S3: the workbook came back, the other three lists did not.
C10_Witness ==
    /\ storeOut # NoValue
    /\ storeOut.op = "load"
    /\ storeOut.backend = "s3"
    /\ storeOut.out.status = "return"
    /\ storeOut.read.encoding = "gzip"
    /\ Len(storeOut.read.doc.datasources) = 1
    /\ Len(storeOut.read.doc.projects) = 1
    /\ Len(storeOut.read.doc.flows) = 1
    /\ Len(storeOut.out.value.workbooks) = 1
    /\ storeOut.out.value.datasources = <<>>

(***************************************************************************)
(* Properties of the storage backends and the manager                      *)
(***************************************************************************)

IsStorageError(out) == out.status = "raise" /\ out.exc.kind = "StorageError"

\* Two outcomes of the same call agree: both raise StorageError, or both
\* return, and then (save apart, whose location names the backend) the
\* same value.
SameOutcome(name, a, b) ==
    /\ a.status = b.status
    /\ a.status = "raise" => IsStorageError(a) /\ IsStorageError(b)
    /\ a.status = "return" /\ name # "save" => a.value = b.value

\* C11: for the same sequence of save_metadata, load_metadata,
\* list_metadata_files and delete_metadata calls on an initially empty
\* LocalStorage and an initially empty S3Storage, each call has the same
\* outcome on both: success or StorageError, the loaded metadata, the
\* listed relative paths, the boolean returned by delete.
C11_BackendsInterchangeable ==
    storeOut # NoValue => SameOutcome(storeOut.op, storeOut.local, storeOut.s3)

\* What list_metadata_files() of a backend returns in a state.
LocalListed(files) == local_list(files, "").value
S3Listed(objects) == s3_list(objects, "", TRUE).value

\* C13: for either backend, once save_metadata(M, p, format) has succeeded
\* for a supported format, list_metadata_files() includes p in every later
\* state until delete_metadata(p) is called: a successful save puts p in
\* the listing, and every call other than delete_metadata(p) keeps it there.
C13_SavedStaysListed ==
    [][LET call == storeOut'
           Listed(f, o) == IF call.backend = "local" THEN LocalListed(f) ELSE S3Listed(o)
       IN  /\ call.op = "save" /\ call.out.status = "return"
                => call.path \in Listed(localFiles', s3Objects')
           /\ \A p \in Listed(localFiles, s3Objects) :
                ~(call.op = "delete" /\ call.path = p)
                    => p \in Listed(localFiles', s3Objects')]_vars

\* The part of C13 that the code keeps on both backends: a path in the
\* listing stays there until delete_metadata is called on it.
ListedStaysListed ==
    [][LET call == storeOut'
           Listed(f, o) == IF call.backend = "local" THEN LocalListed(f) ELSE S3Listed(o)
       IN  \A p \in Listed(localFiles, s3Objects) :
                ~(call.op = "delete" /\ call.path = p)
                    => p \in Listed(localFiles', s3Objects')]_vars

\* C14: LocalStorage.delete_metadata(p) returns True exactly when an
\* artifact saved at p existed at the time of the call and False otherwise;
\* after it returns True, load_metadata(p) fails with a StorageError and a
\* second delete_metadata(p) returns False.
C14_DeleteReportsExistence ==
    [][LET call == storeOut'
       IN  call.op = "delete" /\ call.backend = "local" =>
               /\ call.out.status = "return"
               /\ call.out.value = (localFiles[call.path] # Absent)
               /\ call.out.value =>
                     /\ IsStorageError(local_load(localFiles', call.path))
                     /\ local_delete(localFiles', call.path).out = Returned(FALSE)]_vars

\* The part of C14 that the code keeps: the same for a path that holds a
\* file or nothing.
DeleteOfFileReportsExistence ==
    [][LET call == storeOut'
       IN  call.op = "delete" /\ call.backend = "local" /\ ~IsDir(localFiles[call.path]) =>
               /\ call.out.status = "return"
               /\ call.out.value = (localFiles[call.path] # Absent)
               /\ call.out.value =>
                     /\ IsStorageError(local_load(localFiles', call.path))
                     /\ local_delete(localFiles', call.path).out = Returned(FALSE)]_vars

\* What a successful save of m in a format leaves at the path of a backend.
LocalArtifact(m, format) ==
    CASE format = "json" -> TextFile(metadata_to_json(m))
      [] format = "json.gz" -> GzipFile(metadata_to_json(m))
      [] format = "csv" -> CsvDir(m)
S3Artifact(m, format) ==
    CASE format = "json" -> S3Object("", metadata_to_json(m))
      [] format = "json.gz" -> S3Object("gzip", metadata_to_json(m))

Named(backends) == {backends[i] : i \in 1..Len(backends)}

\* C12: StorageManager.save_metadata, called with a list of backend names,
\* saves the metadata to every named backend and returns a mapping that
\* holds one location string for each named backend: whenever the call
\* returns, the keys of the mapping are the names of the list, each value is
\* the location in that backend, and that backend holds the metadata at the
\* filename.
C12_ManagerSavesToEveryNamedBackend ==
    storeOut # NoValue /\ storeOut.op = "manager_save" /\ storeOut.out.status = "return" =>
        LET call == storeOut
            results == call.out.value
        IN  /\ DOMAIN results = Named(call.backends)
            /\ "local" \in Named(call.backends) =>
                  /\ results["local"] = <<"tableau_metadata", "/", call.filename>>
                  /\ localFiles[call.filename] = LocalArtifact(call.metadata, call.format)
            /\ "s3" \in Named(call.backends) =>
                  /\ results["s3"] = <<"s3://", "bucket", "/", "tableau_metadata/", call.filename>>
                  /\ s3Objects[call.filename] = S3Artifact(call.metadata, call.format)

\* save_metadata(M, "run1.json", ["local", "s3"], "json.gz") has returned.
C12_Witness ==
    /\ storeOut # NoValue
    /\ storeOut.op = "manager_save"
    /\ storeOut.backends = <<"local", "s3">>
    /\ storeOut.format = "json.gz"
    /\ storeOut.out.status = "return"
    /\ DOMAIN storeOut.out.value = {"local", "s3"}

(***************************************************************************)
(* Properties of the collect runs                                          *)
(***************************************************************************)

\* C15: after k successful collect runs that save to the same bucket and
\* key prefix, exactly k objects exist under that prefix (every key of
\* s3Objects is a key under the prefix: s3_key = prefix + filename).
C15_OneObjectPerRun ==
    Cardinality({key \in DOMAIN s3Objects : s3Objects[key] # Absent}) = runs

\* What the code keeps: there are never more objects than successful runs,
\* and the object of the latest successful run is there under its filename.
AtMostOneObjectPerRun ==
    /\ Cardinality({key \in DOMAIN s3Objects : s3Objects[key] # Absent}) <= runs
    /\ storeOut # NoValue /\ storeOut.out.status = "return" =>
          s3Objects[storeOut.filename] = S3Artifact(storeOut.metadata, storeOut.format)

(***************************************************************************)
(* Properties of one collect run                                           *)
(***************************************************************************)

Range(seq) == {seq[k] : k \in 1..Len(seq)}

FailedFetches == {c \in Range(calls) : c.field # "lists" /\ c.outcome # "ok"}

\* The field of a processed item is empty.
LeftEmpty(item, field) ==
    CASE field = "views" -> item.views = <<>>
      [] field = "connections" -> item.connections = <<>>
      [] field = "lineage" -> item.lineage = NoValue

\* C16: during collection, a failure of a per-item enrichment fetch (views,
\* connections or lineage of one workbook or one data source) never aborts
\* the run: a warning is printed, the item is still included in the
\* collected metadata with the failed field left empty, and all remaining
\* items are processed.
C16_EnrichmentFailureTolerated ==
    /\ cpc # "enrichment_failed"
    /\ \A c \in FailedFetches :
          /\ <<c.item, c.field>> \in Range(warnings)
          /\ \E item \in Range(processed_workbooks) \cup Range(processed_datasources) :
                item.id = c.item /\ LeftEmpty(item, c.field)
    /\ \A i \in 1..Len(processed_workbooks) : processed_workbooks[i].id = workbooks_data[i]
    /\ \A i \in 1..Len(processed_datasources) : processed_datasources[i].id = datasources_data[i]
    /\ cpc = "done" =>
          /\ Len(processed_workbooks) = Len(workbooks_data)
          /\ Len(processed_datasources) = Len(datasources_data)

\* A run is through in which a fetch of the first of two workbooks failed.
C16_Witness ==
    /\ cpc = "done"
    /\ Len(workbooks_data) = 2
    /\ Len(processed_workbooks) = 2
    /\ \E c \in FailedFetches : c.item = workbooks_data[1] /\ c.field = "views"

\* C19: within one CLI invocation there is a single authenticated Tableau
\* session: at every moment at most one signed-in session exists, and every
\* REST and metadata (GraphQL) call of the command uses that same session.
C19_SingleSession ==
    /\ Cardinality(sessions) <= 1
    /\ \A c \in Range(calls) : c.session # NoSession => c.session = ConnectionSession

\* What the code keeps: the REST calls all use the session of connection().
RestCallsShareSession ==
    \A c \in Range(calls) : c.field # "lineage" => c.session = ConnectionSession

(***************************************************************************)
(* Properties of the CLI commands                                          *)
(***************************************************************************)

\* C17: every CLI command that ends in an unrecovered error prints an error
\* message and terminates the process with exit status 1; no command
\* returns exit status 0 after such an error.
C17_ErrorExitsWithStatus1 ==
    exitStatus # Running /\ cliError # "" => printed # <<>> /\ exitStatus = 1

\* What the code keeps: the same for every command other than config, when
\* the error is an exception.
ExceptionExitsWithStatus1 ==
    exitStatus # Running /\ cliError \in BodyErrors /\ command # "config" =>
        printed # <<>> /\ exitStatus = 1

\* str(inner) appears in the message: inner is a run of consecutive parts of msg.
Embeds(msg, inner) ==
    \E i \in 1..(Len(msg) - Len(inner) + 1) : SubSeq(msg, i, i + Len(inner) - 1) = inner

Escaped == coreOut # NoValue /\ coreOut.status = "raise"

\* C18: every exception that escapes an operation of the core layer,
\* backend construction included, is of a kind derived from TableauAPIError
\* and embeds the message of the library/SDK exception underneath it.
C18_EscapedIsWrapped ==
    Escaped =>
        /\ coreOut.exc.kind \in TaxonomyKinds
        /\ Embeds(coreOut.exc.msg, coreCause.msg)

\* What does hold: outside of the construction of a backend or of the
\* manager, every escaping exception is of the taxonomy and embeds the
\* underlying message.
Constructors == {"LocalStorage.__init__", "S3Storage.__init__", "StorageManager.__init__"}
EscapedIsWrappedOutsideConstruction ==
    (Escaped /\ coreSite.operation \notin Constructors) =>
        /\ coreOut.exc.kind \in TaxonomyKinds
        /\ Embeds(coreOut.exc.msg, coreCause.msg)

SignOutCalls == {i \in 1..Len(authCalls) : authCalls[i].call = "sign_out"}
VendorSignOuts == {i \in SignOutCalls : authCalls[i].vendor # "none"}

\* The authenticator received one authenticate() call, it succeeded, and
\* sign_out() was called afterwards at least once.
OneAuthenticateThenSignOuts ==
    /\ Len(authCalls) >= 2
    /\ authCalls[1].call = "authenticate"
    /\ authCalls[1].out.status = "return"
    /\ \A i \in 2..Len(authCalls) : authCalls[i].call = "sign_out"

\* C20 as stated: a sign_out() made when the server is not signed in
\* issues no vendor sign-out and raises nothing, and any number of
\* sign_out() calls after one successful authenticate() issue exactly one
\* vendor sign-out.
C20_SignOutIdempotent ==
    /\ \A i \in SignOutCalls :
          ~authCalls[i].signed_in =>
              authCalls[i].vendor = "none" /\ authCalls[i].out.status = "return"
    /\ OneAuthenticateThenSignOuts => Cardinality(VendorSignOuts) = 1

\* C20 amended: a sign_out() made when the server is not signed in issues
\* no vendor sign-out and raises nothing; after one successful
\* authenticate(), the sign_out() calls issue exactly one vendor sign-out
\* unless a vendor sign-out fails: a vendor sign-out is issued again only
\* after one that raised, and at most one succeeds.
C20_SignOutIdempotentUnlessVendorFails ==
    /\ \A i \in SignOutCalls :
          ~authCalls[i].signed_in =>
              authCalls[i].vendor = "none" /\ authCalls[i].out.status = "return"
    /\ OneAuthenticateThenSignOuts =>
          /\ Cardinality(VendorSignOuts) >= 1
          /\ \A i, j \in VendorSignOuts :
                i < j => authCalls[i].vendor = "fails" /\ authCalls[i].out.status = "raise"

\* Two sign_out() calls after one successful authenticate(): the first
\* issued the vendor sign-out, the second found the server signed out.
C20_Witness ==
    /\ OneAuthenticateThenSignOuts
    /\ Len(authCalls) = 3
    /\ authCalls[2].vendor = "ok"
    /\ authCalls[3].vendor = "none"
    /\ ~is_signed_in

FailedCalls == {i \in 1..Len(authCalls) : authCalls[i].out.status = "raise"}

\* What lies underneath the failure of call i: the exception of
\* create_auth_object() when no vendor call was issued, the vendor's
\* otherwise.
UnderlyingCause(i) == IF authCalls[i].vendor = "none" THEN CredentialsRequired ELSE VendorError

\* C21 as stated: every failure of authenticate() or sign_out(), missing
\* credentials included, is an AuthenticationError embedding the underlying
\* cause and comes after exactly one vendor attempt.
C21_FailureAfterExactlyOneAttempt ==
    \A i \in FailedCalls :
        /\ authCalls[i].out.exc.kind = "AuthenticationError"
        /\ Embeds(authCalls[i].out.exc.msg, UnderlyingCause(i).msg)
        /\ authCalls[i].requests = 1

\* C21 amended: every failure of authenticate() or sign_out() is an
\* AuthenticationError embedding the underlying cause; it comes after
\* exactly one vendor attempt when the vendor call failed and after none
\* when the credentials are missing, and no call issues more than one
\* vendor request.
C21_FailureWithoutRetry ==
    /\ \A i \in FailedCalls :
          /\ authCalls[i].out.exc.kind = "AuthenticationError"
          /\ Embeds(authCalls[i].out.exc.msg, UnderlyingCause(i).msg)
          /\ authCalls[i].requests = (IF authCalls[i].vendor = "fails" THEN 1 ELSE 0)
    /\ \A i \in 1..Len(authCalls) : authCalls[i].requests <= 1

\* An authenticate() that failed at the vendor and a sign_out() that failed
\* at the vendor, each after one request.
C21_Witness ==
    /\ \E i \in FailedCalls : authCalls[i].call = "authenticate" /\ authCalls[i].requests = 1
    /\ \E i \in FailedCalls : authCalls[i].call = "sign_out" /\ authCalls[i].requests = 1

\* C23: get_metadata_summary reports counts equal to the lengths of the
\* four lists for every ServerMetadata, and for four empty lists all counts
\* are zero, the recent-update lists are empty and no error is raised.
C23_SummaryCounts ==
    summaryOut # NoValue =>
        /\ summaryOut.status = "return"
        /\ summaryOut.value.counts =
              [workbooks |-> Len(serMeta.workbooks), datasources |-> Len(serMeta.datasources),
               projects |-> Len(serMeta.projects), flows |-> Len(serMeta.flows)]
        /\ (Len(serMeta.workbooks) + Len(serMeta.datasources)
                + Len(serMeta.projects) + Len(serMeta.flows) = 0
              => /\ summaryOut.value.recent_updates.workbooks = <<>>
                 /\ summaryOut.value.recent_updates.datasources = <<>>)

\* What does hold: a summary that is returned has the four lengths as its
\* counts, and the summary of four empty lists is returned.
ReturnedSummaryCounts ==
    summaryOut # NoValue =>
        /\ summaryOut.status = "return" =>
              summaryOut.value.counts =
                  [workbooks |-> Len(serMeta.workbooks),
                   datasources |-> Len(serMeta.datasources),
                   projects |-> Len(serMeta.projects), flows |-> Len(serMeta.flows)]
        /\ (Len(serMeta.workbooks) + Len(serMeta.datasources)
                + Len(serMeta.projects) + Len(serMeta.flows) = 0
              => /\ summaryOut.status = "return"
                 /\ summaryOut.value.recent_updates.workbooks = <<>>
                 /\ summaryOut.value.recent_updates.datasources = <<>>)

\* The file of a list holds a header row and one data row per entity.
HeaderAndRows(rows, list) == Len(rows) = 1 + Len(list)

\* C22: exporting a ServerMetadata to CSV produces one file per entity
\* type that has entities, and each file written holds a header row
\* matching the field list of its entity type followed by exactly one data
\* row per entity (two workbooks, one data source and one project give
\* three files with 2, 1 and 1 data rows).
C22_OneFilePerEntityType ==
    csvOut # NoValue =>
        /\ \A type \in EntityTypes :
              serMeta[type] # <<>> =>
                  /\ csv_name(type) \in DOMAIN csvOut.files
                  /\ HeaderAndRows(csvOut.files[csv_name(type)], serMeta[type])
        /\ \A file \in DOMAIN csvOut.files :
              /\ Len(csvOut.files[file]) >= 1
              /\ \E type \in EntityTypes \ {"flows"} :
                    /\ file = csv_name(type)
                    /\ csvOut.files[file][1] =
                          (IF csvOut.writer = "_export_csv" THEN export_header(type)
                           ELSE storage_fields(type))

\* What does hold, for both writers: each of the workbook, datasource and
\* project lists that is not empty gets a file with its header and one
\* data row per entity.
NonEmptyListsExported ==
    csvOut # NoValue =>
        \A type \in EntityTypes \ {"flows"} :
            serMeta[type] # <<>> =>
                /\ csv_name(type) \in DOMAIN csvOut.files
                /\ HeaderAndRows(csvOut.files[csv_name(type)], serMeta[type])
                /\ csvOut.files[csv_name(type)][1] =
                      (IF csvOut.writer = "_export_csv" THEN export_header(type)
                       ELSE storage_fields(type))

\* The content types a search asks for, in the order of the blocks.
Requested(content_type) ==
    SelectSeq(SearchTypes, LAMBDA type : content_type \in {"all", type})

\* C24: search_content returns one result keyed by exactly the four
\* content types; with content_type "all" it issues four name-contains list
\* calls, one per type, and with a single content type it issues only that
\* type's call and leaves the other three keys as empty lists.  No call is
\* ever issued for a type that was not asked for.
C24_SearchKeyedByFourTypes ==
    searchOut # NoValue =>
        LET req == Requested(searchOut.content_type)
            issued == searchOut.calls
        IN  /\ Len(issued) <= Len(req)
            /\ \A k \in 1..Len(issued) : issued[k] = SearchCall(req[k], searchOut.search_term)
            /\ searchOut.out.status = "return" =>
                  /\ DOMAIN searchOut.out.value = Range(SearchTypes)
                  /\ Len(issued) = Len(req)
                  /\ \A type \in Range(SearchTypes) :
                        searchOut.out.value[type] =
                            (IF type \in Range(req) THEN searchOut.outcome[type].value
                             ELSE <<>>)

\* A search for one content type that returned: one call, one key filled.
C24_Witness ==
    /\ searchOut # NoValue
    /\ searchOut.content_type = "datasources"
    /\ searchOut.out.status = "return"
    /\ Len(searchOut.calls) = 1
    /\ searchOut.out.value["datasources"] = <<"item">>
    /\ searchOut.outcome["workbooks"] = Returned(<<"item">>)
    /\ searchOut.out.value["workbooks"] = <<>>

\* C25: whenever connection() has signed in successfully, the
\* authenticator's sign_out is invoked exactly once when the with-block is
\* left, both when the body completes normally and when it raises.
C25_SignOutOncePerBlock ==
    \A k \in 1..Len(withBlocks) : withBlocks[k].entered => withBlocks[k].sign_outs = 1

\* Two blocks were entered and left, one normally and one by an exception
\* of the body, each with one sign_out() call.
C25_Witness ==
    /\ \E k \in 1..Len(withBlocks) :
          withBlocks[k].entered /\ withBlocks[k].body = NoValue /\ withBlocks[k].sign_outs = 1
    /\ \E k \in 1..Len(withBlocks) :
          withBlocks[k].entered /\ withBlocks[k].body # NoValue /\ withBlocks[k].sign_outs = 1

\* C26: an exception raised by the body of a with-block reaches the caller
\* with its original kind and message, and the ConnectionError "Failed to
\* connect to Tableau Server" is raised only when the sign-in itself fails.
C26_BodyExceptionUnchanged ==
    \A k \in 1..Len(withBlocks) :
        LET b == withBlocks[k]
        IN  /\ (b.entered /\ b.body # NoValue) => b.out = Raised(b.body)
            /\ (b.out.status = "raise" /\ b.out.exc.kind = "ConnectionError"
                    /\ b.out.exc.msg[1] = "Failed to connect to Tableau Server: ")
                  => ~b.entered

\* What does hold: a failed sign-in is raised as that ConnectionError, and
\* an exception of the body that is not an Exception (SystemExit) reaches
\* the caller as it is unless sign_out() raises in its place.
FailedSignInIsConnectionError ==
    \A k \in 1..Len(withBlocks) :
        LET b == withBlocks[k]
        IN  /\ (~b.entered /\ b.sign_outs = 0) =>
                  /\ b.out.status = "raise"
                  /\ b.out.exc.kind = "ConnectionError"
                  /\ b.out.exc.msg[1] = "Failed to connect to Tableau Server: "
            /\ (b.entered /\ b.body # NoValue /\ ~is_exception(b.body.kind)) =>
                  \/ b.out = Raised(b.body)
                  \/ b.out.exc.kind = "AuthenticationError"

\* A step in which a list operation is called.
ListOpCalled == pc \in {"idle", "done"} /\ pc' \in {"try", "done"} /\ conn' = conn

NotConnected == Raised(Exc("ConnectionError", <<"Not connected to server">>))

\* C27: every data operation invoked while no connection is active, before
\* connection() has been entered or after its with-block has exited, raises
\* ConnectionError "Not connected to server" and issues no server call.
C27_NoCallWithoutConnection ==
    [][(ListOpCalled /\ conn = "closed") => (pc' = "done" /\ callOut' = NotConnected)]_vars

\* What does hold: a data operation invoked on a client whose connection()
\* never signed in raises that ConnectionError and issues no server call.
NoCallBeforeFirstConnection ==
    [][(ListOpCalled /\ server = None) => (pc' = "done" /\ callOut' = NotConnected)]_vars

\* C28: every GraphQL request sent by query carries the auth token of a
\* successful sign-in: a query authenticates before its first request, and
\* after a query whose authentication failed the next query authenticates
\* again before sending anything.
C28_RequestsCarryToken ==
    \A k \in 1..Len(gqlLog) :
        /\ \A i \in 1..Len(gqlLog[k].requests) :
              gqlLog[k].requests[i].headers.X_Tableau_Auth = "auth_token"
        /\ (k > 1 /\ gqlLog[k - 1].out.status = "raise"
                  /\ gqlLog[k - 1].out.exc.kind = "AuthenticationError")
              => gqlLog[k].sign_ins = 1

\* What does hold: the first query of a client authenticates before it
\* sends anything, and a query whose authentication failed sends nothing.
FirstQueryAuthenticates ==
    /\ Len(gqlLog) >= 1 =>
          /\ gqlLog[1].sign_ins = 1
          /\ \A i \in 1..Len(gqlLog[1].requests) :
                gqlLog[1].requests[i].headers.X_Tableau_Auth = "auth_token"
    /\ \A k \in 1..Len(gqlLog) :
          (gqlLog[k].out.status = "raise" /\ gqlLog[k].out.exc.kind = "AuthenticationError")
              => gqlLog[k].requests = <<>>

\* The last call was a local load of a file that a save with format
\* "json.gz" wrote.
LoadedGzipSave ==
    /\ storeOut # NoValue
    /\ storeOut.op = "load"
    /\ storeOut.backend = "local"
    /\ storeOut.read # Absent
    /\ storeOut.read.kind = "gzip"

\* C29: for LocalStorage and every path p, after save_metadata(M, p,
\* "json.gz") has succeeded, load_metadata(p) succeeds and returns M's
\* workbooks, whatever the extension of p.
C29_GzipSaveLoadsBack ==
    LoadedGzipSave =>
        /\ storeOut.out.status = "return"
        /\ storeOut.out.value.workbooks =
              dict_to_metadata(json_loads(storeOut.read.doc)).workbooks

\* What does hold: the file loads back when p ends with ".gz".
GzipSaveLoadsBackAtGzPath ==
    (LoadedGzipSave /\ endswith_gz(storeOut.path)) =>
        /\ storeOut.out.status = "return"
        /\ storeOut.out.value.workbooks =
              dict_to_metadata(json_loads(storeOut.read.doc)).workbooks


\* A step of StorageManager.save_metadata that ended by raising.
ManagerSaveRaised ==
    /\ storeOut' # NoValue
    /\ storeOut'.op = "manager_save"
    /\ storeOut'.out.status = "raise"

\* C30: StorageManager.save_metadata is all-or-nothing: whenever it raises a
\* StorageError, none of the named backends has stored the metadata, so the
\* local files and the S3 objects are what they were before the call.
C30_SaveAllOrNothing ==
    [][ManagerSaveRaised => (localFiles' = localFiles /\ s3Objects' = s3Objects)]_vars

\* What does hold: a failed save that names at most one backend stores nothing,
\* and a failed save never changes the store of a backend it does not name.
FailedSingleBackendSaveStoresNothing ==
    [][ManagerSaveRaised =>
          /\ Len(storeOut'.backends) <= 1 =>
                (localFiles' = localFiles /\ s3Objects' = s3Objects)
          /\ (\A i \in 1..Len(storeOut'.backends) : storeOut'.backends[i] # "local") =>
                localFiles' = localFiles
          /\ (\A i \in 1..Len(storeOut'.backends) : storeOut'.backends[i] # "s3") =>
                s3Objects' = s3Objects]_vars

====
